---- MODULE Spec2Model ----
(***************************************************************************)
(* State-machine model of the LMS front-end:                               *)
(*   - AssignmentDetail (student submission view, src/unnamed/part_000)    *)
(*   - LecturerAssignmentView (grading view, LecturerCourses.js)           *)
(*   - SimilarityChecker (comparison workspace, LecturerCourses.js)        *)
(*   - AssignmentSimilarityReport (report view, LecturerCourses.js)        *)
(* Every asynchronous handler is cut at its awaits: the part up to the     *)
(* request is one action, the continuation after each response another.    *)
(* A continuation reads the component state its closure captured when the  *)
(* handler was invoked, so every outstanding request carries that capture. *)
(***************************************************************************)
EXTENDS Integers, Sequences, FiniteSets, TLC

(***************************************************************************)
(* State.  One group of variables per component; a component's actions     *)
(* leave the other groups unchanged.                                       *)
(***************************************************************************)
\* AssignmentDetail (student view)
VARIABLES
  name,                  \* useState("")
  file,                  \* useState(null)
  submitted,             \* useState(false)
  loading,               \* useState(false)
  checkingWebSimilarity, \* useState(false)
  error,                 \* useState("")
  openDialog,            \* useState(false)
  snackbarOpen,          \* useState(false)
  similarityScore,       \* useState(null)
  submissionData,        \* useState(null)
  reportUrl,             \* useState(null)
  reportFilename,        \* useState(null)
  localStorage,          \* window.localStorage, the two keys of assignment id
  pending                \* requests of this view awaiting their response

\* LecturerAssignmentView (grading view)
VARIABLES
  lavSubmissions,        \* submissions, useState([])
  lavLoading,            \* loading, useState(true)
  lavError,              \* error, useState(null)
  lavGrade,              \* what prompt('Enter grade (0-100):') returned last
  lavFeedback,           \* what prompt('Enter feedback:') returned last
  lavAlert,              \* the text of the alert() the last handler showed
  lavPending             \* requests of this view awaiting their response

\* SimilarityChecker (comparison workspace)
VARIABLES
  scSubmissions,         \* submissions, useState([])
  scSelectedSubmissions, \* selectedSubmissions, useState([])
  scLoading,             \* loading, useState(false)
  scError,               \* error, useState(null)
  scActiveTab,           \* activeTab, useState("submissions")
  scWebResults,          \* webResults, useState(null)
  scThreshold,           \* threshold, useState(0)
  scNotification,        \* notification, useState(null)
  scBatches,             \* the Promise.all of each web-similarity check
  scPending              \* requests of this view awaiting their response

\* SimilarityChecker, the Compare Assignments tab
VARIABLES
  scFiles,               \* files, useState([])
  scExistingAssignments, \* existingAssignments, useState([])
  scAssignmentResults,   \* assignmentResults, useState(null)
  scListFetches,         \* GET /list/ requests awaiting their response
  scCompare              \* runs of checkAssignmentSimilarity at an await

\* AssignmentSimilarityReport (report view)
VARIABLES
  rptMounted,            \* the component has been rendered and its effect run
  rptAssignmentResults,  \* the assignmentResults prop
  rptReportUrl,          \* the reportUrl prop
  rptLoading,            \* loading, useState(false)
  rptReportData,         \* reportData, useState(null)
  rptError,              \* error, useState(null)
  rptSimilarTexts,       \* similarTexts, useState({ text1: [], text2: [] })
  rptContents,           \* [content1, content2] of fetchSubmissionContents
  rptPending,            \* requests of this view awaiting their response
  rptPdf,                \* the PDF saved last: image height and page offsets
  rptChain               \* the resolution steps taken, with their outcome

\* the handler or continuation that ran last
VARIABLE lastEvent

studentVars ==
  <<name, file, submitted, loading, checkingWebSimilarity, error, openDialog,
    snackbarOpen, similarityScore, submissionData, reportUrl, reportFilename,
    localStorage, pending>>

lavVars ==
  <<lavSubmissions, lavLoading, lavError, lavGrade, lavFeedback, lavAlert,
    lavPending>>

scVars ==
  <<scSubmissions, scSelectedSubmissions, scLoading, scError, scActiveTab,
    scWebResults, scThreshold, scNotification, scBatches, scPending>>

cmpVars ==
  <<scFiles, scExistingAssignments, scAssignmentResults, scListFetches,
    scCompare>>

rptVars ==
  <<rptMounted, rptAssignmentResults, rptReportUrl, rptLoading, rptReportData,
    rptError, rptSimilarTexts, rptContents, rptPending, rptPdf, rptChain>>

vars == <<studentVars, lavVars, scVars, cmpVars, rptVars, lastEvent>>

(***************************************************************************)
(* JavaScript values.  A value is a record tagged by its type, so that     *)
(* undefined, null, numbers and strings can sit in the same field.         *)
(* A number is an exact non-negative decimal: integer part ip and the      *)
(* fraction digits fp without trailing zeros (42.5 is ip 42, fp <<"5">>).  *)
(***************************************************************************)
Undef == [t |-> "undefined"]

JNull == [t |-> "null"]

NaN == [t |-> "NaN"]

Num(ip, fp) == [t |-> "number", ip |-> ip, fp |-> fp]

Int2Num(n) == Num(n, <<>>)

\* a string held as an atom
Str(s) == [t |-> "string", s |-> s]

\* a string held as its "/"-separated segments: "/reports/55.pdf" is
\* <<"", "reports", "55.pdf">>
Path(segs) == [t |-> "path", seg |-> segs]

IsNum(v) == v.t = "number"

\* JavaScript truthiness of a value
Truthy(v) ==
  CASE v.t = "undefined" -> FALSE
    [] v.t = "null" -> FALSE
    [] v.t = "NaN" -> FALSE
    [] v.t = "number" -> ~(v.ip = 0 /\ v.fp = <<>>)
    [] v.t = "string" -> v.s # ""
    [] v.t = "path" -> v.seg # <<"">>
    [] v.t = "text" -> v.tok # <<>>
    [] v.t = "chars" -> v.ch # <<>>
    [] OTHER -> TRUE

\* the global isNaN(v): Number(v) is NaN
IsNaN(v) ==
  CASE v.t = "number" -> FALSE
    [] v.t = "null" -> FALSE
    [] v.t = "string" -> v.s # ""
    [] OTHER -> TRUE

\* d >= k for a decimal d and an integer k >= 0
NumGE(d, k) == d.ip >= k

(***************************************************************************)
(* Text.  A text is a sequence of tokens: a digit, ".", "-", "%", a letter *)
(* or the literal "Calculated similarity: " (one token, it only ever       *)
(* matches as a whole).                                                    *)
(***************************************************************************)
Text(toks) == [t |-> "text", tok |-> toks]

Digits == {"0", "1", "2", "3", "4", "5", "6", "7", "8", "9"}

DigitVal(c) ==
  CASE c = "0" -> 0 [] c = "1" -> 1 [] c = "2" -> 2 [] c = "3" -> 3
    [] c = "4" -> 4 [] c = "5" -> 5 [] c = "6" -> 6 [] c = "7" -> 7
    [] c = "8" -> 8 [] c = "9" -> 9

RECURSIVE DigitsToNat(_)
DigitsToNat(ds) ==
  IF ds = <<>> THEN 0
  ELSE 10 * DigitsToNat(SubSeq(ds, 1, Len(ds) - 1)) + DigitVal(ds[Len(ds)])

RECURSIVE StripTrailingZeros(_)
StripTrailingZeros(ds) ==
  IF ds # <<>> /\ ds[Len(ds)] = "0"
  THEN StripTrailingZeros(SubSeq(ds, 1, Len(ds) - 1))
  ELSE ds

\* number of digit tokens of s starting at position i
RECURSIVE DigitRun(_, _)
DigitRun(s, i) ==
  IF i <= Len(s) /\ s[i] \in Digits THEN 1 + DigitRun(s, i + 1) ELSE 0

SummaryLiteral == "Calculated similarity: "

\* /Calculated similarity: (\d+\.\d+)%/ tried at token position i: the
\* literal, then the digits, a ".", the digits and a "%"
PatternAt(s, i) ==
  LET n1 == DigitRun(s, i + 1)
      dot == i + 1 + n1
      n2 == DigitRun(s, dot + 1)
      pct == dot + 1 + n2
  IN  /\ i <= Len(s) /\ s[i] = SummaryLiteral
      /\ n1 >= 1
      /\ dot <= Len(s) /\ s[dot] = "."
      /\ n2 >= 1
      /\ pct <= Len(s) /\ s[pct] = "%"

\* parseFloat(match[1]) of the leftmost match, NaN-free: JNull when the
\* pattern does not match
SummaryScore(s) ==
  LET hits == {i \in 1..Len(s) : PatternAt(s, i)}
  IN  IF hits = {} THEN JNull
      ELSE LET i == CHOOSE k \in hits : \A h \in hits : k <= h
               n1 == DigitRun(s, i + 1)
               n2 == DigitRun(s, i + 2 + n1)
           IN  Num(DigitsToNat(SubSeq(s, i + 1, i + n1)),
                   StripTrailingZeros(SubSeq(s, i + 2 + n1, i + 1 + n1 + n2)))

(***************************************************************************)
(* AssignmentDetail: the student submission view.                          *)
(***************************************************************************)
\* the keys `assignment_${id}_status` and `assignment_${id}_data` of the
\* assignment shown, id = 7
StatusKey == "assignment_7_status"

DataKey == "assignment_7_data"

StorageKeys == {StatusKey, DataKey}

Origin == <<"http:", "", "127.0.0.1:8000">>

\* `http://127.0.0.1:8000${path}` for a path that starts with "/"
FullUrl(path) == Path(Origin \o Tail(path.seg))

\* url.split('/').pop()
SplitPop(path) == Str(path.seg[Len(path.seg)])

\* JSON.stringify of an object: a field holding NaN is written as null and a
\* field holding undefined is left out
JSONstringify(obj) ==
  [t |-> "json",
   v |-> [f \in DOMAIN obj |->
            IF f # "t" /\ obj[f] = NaN THEN JNull ELSE obj[f]]]

\* JSON.parse of a text JSON.stringify wrote
JSONparse(text) == text.v

\* parseFloat of a stored score
ParseFloat(v) == IF v.t = "number" THEN v ELSE NaN

\* outstanding requests may not exceed this many at a time
MaxPending == 3

NewRid == CHOOSE i \in 1..(MaxPending + 1) : \A r \in pending : r.rid # i

CanSend == Cardinality(pending) < MaxPending

Names == {"", "Alice"}

TheFile == [t |-> "file", name |-> "essay.txt"]

StudentInit ==
  /\ name = ""
  /\ file = JNull
  /\ submitted = FALSE
  /\ loading = FALSE
  /\ checkingWebSimilarity = FALSE
  /\ error = ""
  /\ openDialog = FALSE
  /\ snackbarOpen = FALSE
  /\ similarityScore = JNull
  /\ submissionData = JNull
  /\ reportUrl = JNull
  /\ reportFilename = JNull
  /\ localStorage = [k \in StorageKeys |-> JNull]
  /\ pending = {}

\* the modal Dialog covers the rest of the view while it is open
ViewEnabled == ~openDialog

\* onChange of the name field
SetName(n) ==
  /\ lastEvent' = "SetName"
  /\ UNCHANGED <<lavVars, scVars, cmpVars, rptVars>>
  /\ ~submitted /\ ViewEnabled
  /\ name' = n
  /\ UNCHANGED <<file, submitted, loading, checkingWebSimilarity, error,
                 openDialog, snackbarOpen, similarityScore, submissionData,
                 reportUrl, reportFilename, localStorage, pending>>

handleFileChange ==
  /\ lastEvent' = "handleFileChange"
  /\ UNCHANGED <<lavVars, scVars, cmpVars, rptVars>>
  /\ ~submitted /\ ViewEnabled
  /\ file' = TheFile
  /\ error' = ""
  /\ UNCHANGED <<name, submitted, loading, checkingWebSimilarity, openDialog,
                 snackbarOpen, similarityScore, submissionData, reportUrl,
                 reportFilename, localStorage, pending>>

handleClearFile ==
  /\ lastEvent' = "handleClearFile"
  /\ UNCHANGED <<lavVars, scVars, cmpVars, rptVars>>
  /\ ~submitted /\ ViewEnabled /\ Truthy(file)
  /\ file' = JNull
  /\ UNCHANGED <<name, submitted, loading, checkingWebSimilarity, error,
                 openDialog, snackbarOpen, similarityScore, submissionData,
                 reportUrl, reportFilename, localStorage, pending>>

\* the record the backend returns for a submission that carried name n
SubmissionRecord(n, sid) ==
  [t |-> "object", submission_id |-> sid, student_name |-> Str(n),
   file_name |-> Str(TheFile.name), web_similarity_score |-> Undef,
   report_url |-> Undef, report_filename |-> Undef]

BackendMessage == "backend message"

\* err.response?.data?.message or response.data.message: present or not
Messages == {Undef, Str(BackendMessage)}

\* message || fallback
OrElse(msg, fallback) == IF Truthy(msg) THEN msg.s ELSE fallback

\* what may come back for the submit request r: a rejection (network error
\* or a non-2xx status), or a body with a status, a data record and a message
SubmitResponses(r) ==
  [rejected : {TRUE}, message : Messages]
    \cup [rejected : {FALSE}, status : {"success"},
          data : {SubmissionRecord(r.name, Int2Num(55)),
                  SubmissionRecord(r.name, Undef), Undef},
          message : {Undef}]
    \cup [rejected : {FALSE}, status : {"error"}, data : {Undef},
          message : Messages]

\* handleSubmit without its check of the file
handleSubmitNoFileCheck ==
  IF name = ""
  THEN /\ error' = "Please enter your name."
       /\ UNCHANGED <<loading, pending>>
  ELSE /\ CanSend
       /\ loading' = TRUE
       /\ error' = ""
       /\ pending' = pending \cup
            {[rid |-> NewRid, kind |-> "submit", name |-> name, file |-> file]}

\* handleSubmit up to the request
handleSubmit ==
  IF name = ""
  THEN /\ error' = "Please enter your name."
       /\ UNCHANGED <<loading, pending>>
  ELSE IF ~Truthy(file)
  THEN /\ error' = "Please upload a file before submitting."
       /\ UNCHANGED <<loading, pending>>
  ELSE /\ CanSend
       /\ loading' = TRUE
       /\ error' = ""
       /\ pending' = pending \cup
            {[rid |-> NewRid, kind |-> "submit", name |-> name, file |-> file]}

\* a submit button that is never disabled
SubmitNeverDisabled == TRUE

\* disabled={loading || !name || !file} of the submit button
SubmitEnabled == ~(loading \/ name = "" \/ ~Truthy(file))

\* the submit button is clicked
SubmitClick ==
  /\ lastEvent' = "SubmitClick"
  /\ UNCHANGED <<lavVars, scVars, cmpVars, rptVars>>
  /\ ~submitted /\ ViewEnabled /\ SubmitEnabled
  /\ handleSubmit
  /\ UNCHANGED <<name, file, submitted, checkingWebSimilarity, openDialog,
                 snackbarOpen, similarityScore, submissionData, reportUrl,
                 reportFilename, localStorage>>

\* the form's submit event reaches onSubmit={handleSubmit} directly
SubmitEvent ==
  /\ lastEvent' = "SubmitEvent"
  /\ UNCHANGED <<lavVars, scVars, cmpVars, rptVars>>
  /\ ~submitted
  /\ handleSubmit
  /\ UNCHANGED <<name, file, submitted, checkingWebSimilarity, openDialog,
                 snackbarOpen, similarityScore, submissionData, reportUrl,
                 reportFilename, localStorage>>

\* handleSubmit after the await, were every answered request a success
SubmitSettleAnyStatus(r, resp) ==
  /\ IF ~resp.rejected
     THEN /\ localStorage' = [localStorage EXCEPT ![StatusKey] = Str("submitted")]
          /\ submitted' = TRUE
          /\ snackbarOpen' = TRUE
          /\ UNCHANGED <<error, submissionData, similarityScore>>
     ELSE /\ error' = OrElse(resp.message, "An error occurred.")
          /\ UNCHANGED <<localStorage, submissionData, similarityScore,
                         submitted, snackbarOpen>>
  /\ loading' = FALSE
  /\ pending' = pending \ {r}
  /\ UNCHANGED <<name, file, checkingWebSimilarity, openDialog, reportUrl,
                 reportFilename>>

\* handleSubmit after the await, for request r and what came back
SubmitSettle(r, resp) ==
  /\ IF ~resp.rejected /\ resp.status = "success"
     THEN /\ localStorage' =
               [localStorage EXCEPT
                  ![StatusKey] = Str("submitted"),
                  ![DataKey] = IF Truthy(resp.data)
                               THEN JSONstringify(resp.data) ELSE @]
          /\ submissionData' =
               IF Truthy(resp.data) THEN resp.data ELSE submissionData
          /\ similarityScore' =
               IF Truthy(resp.data) THEN JNull ELSE similarityScore
          /\ submitted' = TRUE
          /\ snackbarOpen' = TRUE
          /\ UNCHANGED error
     ELSE /\ error' =
               IF resp.rejected
               THEN OrElse(resp.message,
                      "An error occurred while submitting your assignment. Please try again.")
               ELSE OrElse(resp.message, "An error occurred during submission.")
          /\ UNCHANGED <<localStorage, submissionData, similarityScore,
                         submitted, snackbarOpen>>
  /\ loading' = FALSE
  /\ pending' = pending \ {r}
  /\ UNCHANGED <<name, file, checkingWebSimilarity, openDialog, reportUrl,
                 reportFilename>>

SubmitResponse ==
  /\ lastEvent' = "SubmitResponse"
  /\ UNCHANGED <<lavVars, scVars, cmpVars, rptVars>>
  /\ \E r \in pending :
       /\ r.kind = "submit"
       /\ \E resp \in SubmitResponses(r) : SubmitSettle(r, resp)

ReportPath == Path(<<"", "reports", "55.pdf">>)

WebScores == {Undef, JNull, Int2Num(0), Int2Num(81), Str("n/a")}

SimScores == {Undef, Int2Num(30)}

\* "x Calculated similarity: 42.5%x"
SummaryExample ==
  Text(<<"x", SummaryLiteral, "4", "2", ".", "5", "%", "x">>)

Summaries ==
  {Undef,
   Text(<<>>),
   SummaryExample,
   Text(<<SummaryLiteral, "4", "2", "%">>),
   Text(<<SummaryLiteral, "4", "2", "%", "x", SummaryLiteral, "4", "2",
          ".", "5", "0", "%">>)}

\* what may come back for a web-similarity request: a rejection, a success
\* body (with score fields and a summary that may hold the score, or with
\* the summary alone) or a body with another status
WebResponses ==
  [rejected : {TRUE}, message : Messages]
    \cup [rejected : {FALSE}, status : {"success"},
          web_similarity_score : WebScores, similarity_score : SimScores,
          analysis_summary : {Undef, SummaryExample},
          report_url : {Undef, ReportPath}, message : {Undef}]
    \cup [rejected : {FALSE}, status : {"success"},
          web_similarity_score : {Undef}, similarity_score : {Undef},
          analysis_summary : Summaries,
          report_url : {Undef, ReportPath}, message : {Undef}]
    \cup [rejected : {FALSE}, status : {"error"}, message : Messages]

\* the score taken from a success body, were similarity_score looked at first
ResolveScoreAlternateFirst(body) ==
  IF body.similarity_score # Undef THEN body.similarity_score
  ELSE IF body.web_similarity_score # Undef THEN body.web_similarity_score
  ELSE IF Truthy(body.analysis_summary)
  THEN SummaryScore(body.analysis_summary.tok)
  ELSE JNull

\* the score taken from a success body: the three places it is looked for
ResolveScore(body) ==
  IF body.web_similarity_score # Undef THEN body.web_similarity_score
  ELSE IF body.similarity_score # Undef THEN body.similarity_score
  ELSE IF Truthy(body.analysis_summary)
  THEN SummaryScore(body.analysis_summary.tok)
  ELSE JNull

\* the test of the cache with its comparison of the score turned round
CheckUsesCacheInverted == similarityScore = JNull /\ Truthy(reportUrl)

\* similarityScore !== null && reportUrl: the cached result is shown again
CheckUsesCache == similarityScore # JNull /\ Truthy(reportUrl)

\* handleCheckWebSimilarity up to the request, without the cache
handleCheckAlwaysQueries ==
  IF ~submitted
  THEN /\ error' = "Please submit your assignment first before checking web similarity."
       /\ UNCHANGED <<snackbarOpen, checkingWebSimilarity, pending>>
  ELSE IF ~Truthy(submissionData) \/ ~Truthy(submissionData.submission_id)
  THEN /\ error' = "Submission data is incomplete. Please try submitting again."
       /\ UNCHANGED <<snackbarOpen, checkingWebSimilarity, pending>>
  ELSE /\ CanSend
       /\ checkingWebSimilarity' = TRUE
       /\ error' = ""
       /\ pending' = pending \cup
            {[rid |-> NewRid, kind |-> "web", sd |-> submissionData]}
       /\ UNCHANGED snackbarOpen

\* handleCheckWebSimilarity up to the request
handleCheckWebSimilarity ==
  IF ~submitted
  THEN /\ error' = "Please submit your assignment first before checking web similarity."
       /\ UNCHANGED <<snackbarOpen, checkingWebSimilarity, pending>>
  ELSE IF ~Truthy(submissionData) \/ ~Truthy(submissionData.submission_id)
  THEN /\ error' = "Submission data is incomplete. Please try submitting again."
       /\ UNCHANGED <<snackbarOpen, checkingWebSimilarity, pending>>
  ELSE IF CheckUsesCache
  THEN /\ snackbarOpen' = TRUE
       /\ UNCHANGED <<error, checkingWebSimilarity, pending>>
  ELSE /\ CanSend
       /\ checkingWebSimilarity' = TRUE
       /\ error' = ""
       /\ pending' = pending \cup
            {[rid |-> NewRid, kind |-> "web", sd |-> submissionData]}
       /\ UNCHANGED snackbarOpen

\* the Check Web Similarity button (disabled={checkingWebSimilarity}) is
\* clicked; it is rendered in the submitted branch
CheckClick ==
  /\ lastEvent' = "CheckClick"
  /\ UNCHANGED <<lavVars, scVars, cmpVars, rptVars>>
  /\ submitted /\ ViewEnabled /\ ~checkingWebSimilarity
  /\ handleCheckWebSimilarity
  /\ UNCHANGED <<name, file, submitted, loading, openDialog, similarityScore,
                 submissionData, reportUrl, reportFilename, localStorage>>

\* submissionData with the score and the report of a success body
UpdatedData(sd, score, body) ==
  [sd EXCEPT
     !.web_similarity_score = score,
     !.report_url = IF Truthy(body.report_url) THEN body.report_url ELSE JNull,
     !.report_filename =
        IF Truthy(body.report_url) THEN SplitPop(body.report_url) ELSE JNull]

\* the score of a success body is kept: it is not null and not NaN
ScoreAccepted(score) == score # JNull /\ ~IsNaN(score)

\* handleCheckWebSimilarity after the await, for request r
WebSettle(r, resp) ==
  /\ IF ~resp.rejected /\ resp.status = "success"
     THEN LET score == ResolveScore(resp) IN
          /\ IF ScoreAccepted(score)
             THEN /\ similarityScore' = score
                  /\ snackbarOpen' = TRUE
                  /\ localStorage' =
                       [localStorage EXCEPT
                          ![DataKey] = JSONstringify(UpdatedData(r.sd, score, resp))]
                  /\ submissionData' = UpdatedData(r.sd, score, resp)
             ELSE UNCHANGED <<similarityScore, snackbarOpen, localStorage,
                              submissionData>>
          /\ error' = IF score = JNull
                      THEN "Could not determine similarity score from the response"
                      ELSE error
          /\ IF Truthy(resp.report_url)
             THEN /\ reportUrl' = FullUrl(resp.report_url)
                  /\ reportFilename' = SplitPop(resp.report_url)
             ELSE UNCHANGED <<reportUrl, reportFilename>>
     ELSE /\ error' =
               IF resp.rejected
               THEN OrElse(resp.message,
                      "Failed to check web similarity. Please try again.")
               ELSE OrElse(resp.message,
                      "An error occurred during web similarity check.")
          /\ UNCHANGED <<similarityScore, snackbarOpen, localStorage,
                         submissionData, reportUrl, reportFilename>>
  /\ checkingWebSimilarity' = FALSE
  /\ pending' = pending \ {r}
  /\ UNCHANGED <<name, file, submitted, loading, openDialog>>

WebResponseOf(responses) ==
  /\ lastEvent' = "WebResponse"
  /\ UNCHANGED <<lavVars, scVars, cmpVars, rptVars>>
  /\ \E r \in pending :
       /\ r.kind = "web"
       /\ \E resp \in responses : WebSettle(r, resp)

WebResponse == WebResponseOf(WebResponses)

Scores == 0..100

\* success bodies with every score 0..100, and a rejection
BadgeResponses ==
  [rejected : {FALSE}, status : {"success"},
   web_similarity_score : {Int2Num(n) : n \in Scores},
   similarity_score : {Undef}, analysis_summary : {Undef},
   report_url : {Undef}, message : {Undef}]
    \cup [rejected : {TRUE}, message : {Undef}]

getSimilarityColorTwoBuckets(score) ==
  IF IsNum(score) /\ NumGE(score, 40) THEN Str("#D32F2F")
  ELSE Str("#388E3C")

getSimilarityColor(score) ==
  IF IsNum(score) /\ NumGE(score, 70) THEN Str("#D32F2F")
  ELSE IF IsNum(score) /\ NumGE(score, 40) THEN Str("#FFEB3B")
  ELSE Str("#388E3C")

\* the score badge is rendered in the submitted view when
\* similarityScore !== null
BadgeShown == submitted /\ similarityScore # JNull

\* bgcolor of the badge
BadgeColor == getSimilarityColor(similarityScore)

\* what may come back for the delete-submission request
DeleteResponses ==
  [rejected : {TRUE}, message : Messages]
    \cup [rejected : {FALSE}, status : {"success"}, message : {Undef}]
    \cup [rejected : {FALSE}, status : {"error"}, message : Messages]

\* the block "clear all local state" of handleRemove
ClearLocalState ==
  /\ localStorage' = [k \in StorageKeys |-> JNull]
  /\ submitted' = FALSE
  /\ submissionData' = JNull
  /\ similarityScore' = JNull
  /\ reportUrl' = JNull
  /\ reportFilename' = JNull
  /\ file' = JNull
  /\ name' = ""

KeepLocalState ==
  UNCHANGED <<localStorage, submitted, submissionData, similarityScore,
              reportUrl, reportFilename, file, name>>

\* handleRemove up to the request (or to its end, with no submission id)
handleRemove ==
  /\ openDialog' = FALSE
  /\ IF Truthy(submissionData) /\ Truthy(submissionData.submission_id)
     THEN /\ CanSend
          /\ loading' = TRUE
          /\ error' = ""
          /\ pending' = pending \cup
               {[rid |-> NewRid, kind |-> "delete", rf |-> reportFilename,
                 step |-> "submission"]}
          /\ KeepLocalState
     ELSE /\ ClearLocalState
          /\ UNCHANGED <<loading, error, pending>>
  /\ UNCHANGED <<checkingWebSimilarity, snackbarOpen>>

\* "Remove Submission & Upload New File" opens the dialog
OpenDialog ==
  /\ lastEvent' = "OpenDialog"
  /\ UNCHANGED <<lavVars, scVars, cmpVars, rptVars>>
  /\ submitted /\ ViewEnabled
  /\ openDialog' = TRUE
  /\ UNCHANGED <<name, file, submitted, loading, checkingWebSimilarity, error,
                 snackbarOpen, similarityScore, submissionData, reportUrl,
                 reportFilename, localStorage, pending>>

\* Cancel, or the dialog's onClose
CloseDialog ==
  /\ lastEvent' = "CloseDialog"
  /\ UNCHANGED <<lavVars, scVars, cmpVars, rptVars>>
  /\ openDialog
  /\ openDialog' = FALSE
  /\ UNCHANGED <<name, file, submitted, loading, checkingWebSimilarity, error,
                 snackbarOpen, similarityScore, submissionData, reportUrl,
                 reportFilename, localStorage, pending>>

\* "Yes, Remove" (disabled={loading}) is clicked
RemoveClick ==
  /\ lastEvent' = "RemoveClick"
  /\ UNCHANGED <<lavVars, scVars, cmpVars, rptVars>>
  /\ openDialog /\ ~loading
  /\ handleRemove

\* handleRemove after the delete-submission await, for request r
DeleteSettle(r, resp) ==
  /\ r.step = "submission"
  /\ IF ~resp.rejected /\ resp.status = "success"
     THEN IF Truthy(r.rf)
          THEN \* the report is deleted next: a second await
               /\ pending' = (pending \ {r}) \cup {[r EXCEPT !.step = "report"]}
               /\ KeepLocalState
               /\ UNCHANGED <<snackbarOpen, error, loading>>
          ELSE /\ ClearLocalState
               /\ snackbarOpen' = TRUE
               /\ loading' = FALSE
               /\ pending' = pending \ {r}
               /\ UNCHANGED error
     ELSE IF ~resp.rejected
     THEN /\ error' = OrElse(resp.message,
                        "Failed to remove submission. Please try again.")
          /\ KeepLocalState
          /\ loading' = FALSE
          /\ pending' = pending \ {r}
          /\ UNCHANGED snackbarOpen
     ELSE /\ error' = OrElse(resp.message,
                        "An error occurred while removing your submission. Please try again.")
          /\ ClearLocalState
          /\ loading' = FALSE
          /\ pending' = pending \ {r}
          /\ UNCHANGED snackbarOpen
  /\ UNCHANGED <<checkingWebSimilarity, openDialog>>

DeleteResponse ==
  /\ lastEvent' = "DeleteResponse"
  /\ UNCHANGED <<lavVars, scVars, cmpVars, rptVars>>
  /\ \E r \in pending :
       /\ r.kind = "delete"
       /\ \E resp \in DeleteResponses : DeleteSettle(r, resp)

\* the second await of handleRemove without the finally block
ReportDeleteSettleKeepsLoading(r, ok) ==
  /\ r.step = "report"
  /\ ClearLocalState
  /\ snackbarOpen' = TRUE
  /\ pending' = pending \ {r}
  /\ UNCHANGED <<checkingWebSimilarity, openDialog, error, loading>>

\* handleRemove after the delete-web-report await: whether it resolved or
\* threw, the local state is cleared
ReportDeleteSettle(r, ok) ==
  /\ r.step = "report"
  /\ ClearLocalState
  /\ snackbarOpen' = TRUE
  /\ loading' = FALSE
  /\ pending' = pending \ {r}
  /\ UNCHANGED <<checkingWebSimilarity, openDialog, error>>

ReportDeleteResponse ==
  /\ lastEvent' = "ReportDeleteResponse"
  /\ UNCHANGED <<lavVars, scVars, cmpVars, rptVars>>
  /\ \E r \in pending :
       /\ r.kind = "delete"
       /\ \E ok \in BOOLEAN : ReportDeleteSettle(r, ok)

\* the Snackbar closes (autoHideDuration or onClose)
SnackbarClose ==
  /\ lastEvent' = "SnackbarClose"
  /\ UNCHANGED <<lavVars, scVars, cmpVars, rptVars>>
  /\ snackbarOpen
  /\ snackbarOpen' = FALSE
  /\ UNCHANGED <<name, file, submitted, loading, checkingWebSimilarity, error,
                 openDialog, similarityScore, submissionData, reportUrl,
                 reportFilename, localStorage, pending>>

\* the effect on [id] that restores the view from localStorage at mount
RestoredData == JSONparse(localStorage[DataKey])

RestoreSubmitted == localStorage[StatusKey] = Str("submitted")

RestoreHasData == RestoreSubmitted /\ Truthy(localStorage[DataKey])

RestoreScore ==
  IF /\ RestoreHasData
     /\ RestoredData.web_similarity_score # Undef
     /\ ~IsNaN(RestoredData.web_similarity_score)
  THEN ParseFloat(RestoredData.web_similarity_score)
  ELSE JNull

\* the page is loaded again: what the scripts held is gone, the component
\* mounts with its initial state and the restore effect runs
Reload ==
  /\ lastEvent' = "Reload"
  /\ UNCHANGED <<lavVars, scVars, cmpVars, rptVars>>
  /\ name' = ""
  /\ file' = JNull
  /\ loading' = FALSE
  /\ checkingWebSimilarity' = FALSE
  /\ error' = ""
  /\ openDialog' = FALSE
  /\ snackbarOpen' = FALSE
  /\ pending' = {}
  /\ submitted' = RestoreSubmitted
  /\ submissionData' = IF RestoreHasData THEN RestoredData ELSE JNull
  /\ similarityScore' = RestoreScore
  /\ reportUrl' =
       IF RestoreHasData /\ Truthy(RestoredData.report_url)
       THEN FullUrl(RestoredData.report_url) ELSE JNull
  /\ reportFilename' =
       IF RestoreHasData /\ Truthy(RestoredData.report_filename)
       THEN RestoredData.report_filename ELSE JNull
  /\ UNCHANGED localStorage

\* handleDownloadReport up to the request
handleDownloadReport ==
  IF ~Truthy(reportFilename)
  THEN /\ error' = "No report is available to download."
       /\ UNCHANGED pending
  ELSE /\ CanSend
       /\ error' = ""
       /\ pending' = pending \cup
            {[rid |-> NewRid, kind |-> "download", rf |-> reportFilename]}

\* Download Report is clicked; the report buttons are rendered in the
\* submitted branch under (reportUrl || reportFilename)
DownloadClick ==
  /\ lastEvent' = "DownloadClick"
  /\ UNCHANGED <<lavVars, scVars, cmpVars, rptVars>>
  /\ submitted /\ ViewEnabled
  /\ Truthy(reportUrl) \/ Truthy(reportFilename)
  /\ handleDownloadReport
  /\ UNCHANGED <<name, file, submitted, loading, checkingWebSimilarity,
                 openDialog, snackbarOpen, similarityScore, submissionData,
                 reportUrl, reportFilename, localStorage>>

\* handleDownloadReport after the await: the blob is saved, or the catch
\* block runs.  The request asks for a blob, so a failure carries no
\* message field and the fallback string is used.
DownloadSettle(r, ok) ==
  /\ IF ok
     THEN snackbarOpen' = TRUE /\ UNCHANGED error
     ELSE /\ error' = OrElse(Undef,
                        "Failed to download the report. Please try again.")
          /\ UNCHANGED snackbarOpen
  /\ pending' = pending \ {r}
  /\ UNCHANGED <<name, file, submitted, loading, checkingWebSimilarity,
                 openDialog, similarityScore, submissionData, reportUrl,
                 reportFilename, localStorage>>

DownloadResponse ==
  /\ lastEvent' = "DownloadResponse"
  /\ UNCHANGED <<lavVars, scVars, cmpVars, rptVars>>
  /\ \E r \in pending :
       /\ r.kind = "download"
       /\ \E ok \in BOOLEAN : DownloadSettle(r, ok)

StudentCommon ==
  \/ \E n \in Names : SetName(n)
  \/ handleFileChange
  \/ handleClearFile
  \/ SubmitResponse
  \/ CheckClick
  \/ WebResponse
  \/ OpenDialog
  \/ CloseDialog
  \/ RemoveClick
  \/ DeleteResponse
  \/ ReportDeleteResponse
  \/ SnackbarClose
  \/ Reload

StudentNext == SubmitClick \/ StudentCommon

\* submitting, checking with every score and removing
StudentBadgeNext ==
  \/ \E n \in Names : SetName(n)
  \/ handleFileChange
  \/ SubmitClick
  \/ SubmitResponse
  \/ CheckClick
  \/ WebResponseOf(BadgeResponses)
  \/ OpenDialog
  \/ RemoveClick
  \/ DeleteResponse

\* the student view with the download of the report
StudentDownloadNext == StudentNext \/ DownloadClick \/ DownloadResponse

\* the submission form alone, its handler reached by the submit event
StudentFormNext ==
  \/ SubmitEvent
  \/ \E n \in Names : SetName(n)
  \/ handleFileChange
  \/ handleClearFile
  \/ SubmitResponse
  \/ Reload

(***************************************************************************)
(* LecturerAssignmentView: the lecturer grading view.                      *)
(***************************************************************************)
\* a string held as its characters
Chars(cs) == [t |-> "chars", ch |-> cs]

\* parseInt(s) of a string of digits, ".", "-" and letters: an optional
\* sign, then the digits up to the first character that is none; NaN when
\* there is no digit.  -0 is kept apart from 0.
ParseInt(cs) ==
  LET neg == cs # <<>> /\ cs[1] = "-"
      start == IF neg THEN 2 ELSE 1
      n == DigitRun(cs, start)
  IN  IF n = 0 THEN NaN
      ELSE [t |-> "int", neg |-> neg,
            n |-> DigitsToNat(SubSeq(cs, start, start + n - 1))]

\* isNaN(numericGrade) || numericGrade < 0 || numericGrade > 100
GradeRejected(v) ==
  \/ v = NaN
  \/ v.neg /\ v.n > 0
  \/ ~v.neg /\ v.n > 100

\* the grade as the request body carries it (JSON writes -0 as 0)
GradeSent(v) == IF v.neg THEN 0 - v.n ELSE v.n

GradeAlphabet == {"1", ".", "-", "a"}

\* every text of at most this many characters is entered as a grade
MaxGradeLen == 1

LongGrades ==
  {<<"0">>, <<"1", "a">>, <<"-", "1">>, <<"1", ".", "1">>,
   <<"1", "0", "0">>, <<"1", "0", "1">>, <<"-", "0", ".", "1">>,
   <<"1", "0", "0", ".", "1">>}

GradeTexts ==
  UNION {[1..n -> GradeAlphabet] : n \in 0..MaxGradeLen} \cup LongGrades

\* prompt() returns null when it is cancelled
GradePrompts == {JNull} \cup {Chars(cs) : cs \in GradeTexts}

FeedbackPrompts == {JNull, Str("well done")}

ValidationAlert == "Please enter a valid grade between 0 and 100"

GradeFailedAlert == "Failed to grade submission. Please try again."

LavSubmission(id) ==
  [id |-> id, status |-> "submitted", grade |-> Undef, feedback |-> Undef,
   web_similarity_score |-> Undef]

\* the array GET /assignment/{id}/submissions/ returns
LavServerList == <<LavSubmission(1), LavSubmission(2)>>

\* grade requests may not exceed this many at a time
MaxLavPending == 2

LavInit ==
  /\ lavSubmissions = <<>>
  /\ lavLoading = TRUE
  /\ lavError = JNull
  /\ lavGrade = JNull
  /\ lavFeedback = JNull
  /\ lavAlert = ""
  /\ lavPending = {[rid |-> 0, kind |-> "fetch"]}

\* a submission may come with a score, with null, or without the field
OptionalScores == {Undef, JNull} \cup {Int2Num(n) : n \in 0..100}

\* lists of one submission, with every score
LavScoredLists ==
  {<<[LavSubmission(1) EXCEPT !.web_similarity_score = score]>> :
     score \in OptionalScores}

\* submission.web_similarity_score !== undefined: the badge of a row
LavBadgeRendered(submission) == submission.web_similarity_score # Undef

\* fetchSubmissionsAndDetails after its awaits, the server holding one of
\* lists
LavFetchResponseOf(lists) ==
  /\ lastEvent' = "LavFetchResponse"
  /\ \E r \in lavPending :
       /\ r.kind = "fetch"
       /\ lavPending' = lavPending \ {r}
       /\ \E ok \in BOOLEAN, list \in lists :
            IF ok
            THEN lavSubmissions' = list /\ UNCHANGED lavError
            ELSE lavError' = Str("Failed to fetch submissions")
                 /\ UNCHANGED lavSubmissions
  /\ lavLoading' = FALSE
  /\ UNCHANGED <<lavGrade, lavFeedback, lavAlert>>
  /\ UNCHANGED <<studentVars, scVars, cmpVars, rptVars>>

LavFetchResponse == LavFetchResponseOf({LavServerList})

LavNewRid ==
  CHOOSE i \in 1..(MaxLavPending + 1) : \A r \in lavPending : r.rid # i

\* handleGradeSubmission up to the request
handleGradeSubmission(submissionId, grade, feedback) ==
  lavPending' = lavPending \cup
    {[rid |-> LavNewRid, kind |-> "grade", submissionId |-> submissionId,
      grade |-> grade, feedback |-> feedback, submissions |-> lavSubmissions]}

\* onClick of the Grade button of the i-th row, with what the two prompts
\* return
GradeClick(i, g, f) ==
  /\ lastEvent' = "GradeClick"
  /\ ~lavLoading /\ lavError = JNull
  /\ i \in DOMAIN lavSubmissions
  /\ lavSubmissions[i].status # "graded"
  /\ g = JNull => f = JNull
  /\ Cardinality(lavPending) < MaxLavPending
  /\ lavGrade' = g
  /\ lavFeedback' = f
  /\ IF g = JNull \/ f = JNull
     THEN lavAlert' = "" /\ UNCHANGED lavPending
     ELSE IF GradeRejected(ParseInt(g.ch))
     THEN lavAlert' = ValidationAlert /\ UNCHANGED lavPending
     ELSE /\ lavAlert' = ""
          /\ handleGradeSubmission(lavSubmissions[i].id,
                                   GradeSent(ParseInt(g.ch)), f)
  /\ UNCHANGED <<lavSubmissions, lavLoading, lavError>>
  /\ UNCHANGED <<studentVars, scVars, cmpVars, rptVars>>

\* submissions.map(...) of handleGradeSubmission, on the list it captured
GradePatch(r) ==
  [k \in DOMAIN r.submissions |->
     IF r.submissions[k].id = r.submissionId
     THEN [r.submissions[k] EXCEPT !.grade = Int2Num(r.grade),
                                   !.feedback = r.feedback,
                                   !.status = "graded"]
     ELSE r.submissions[k]]

\* handleGradeSubmission after the await
GradeResponse ==
  /\ lastEvent' = "GradeResponse"
  /\ \E r \in lavPending :
       /\ r.kind = "grade"
       /\ lavPending' = lavPending \ {r}
       /\ \E ok \in BOOLEAN :
            IF ok
            THEN lavSubmissions' = GradePatch(r) /\ UNCHANGED lavAlert
            ELSE lavAlert' = GradeFailedAlert /\ UNCHANGED lavSubmissions
  /\ UNCHANGED <<lavLoading, lavError, lavGrade, lavFeedback>>
  /\ UNCHANGED <<studentVars, scVars, cmpVars, rptVars>>

GradeNext ==
  \/ LavFetchResponse
  \/ \E i \in 1..Len(lavSubmissions) :
       \E g \in GradePrompts : \E f \in FeedbackPrompts : GradeClick(i, g, f)
  \/ GradeResponse

(***************************************************************************)
(* SimilarityChecker: the comparison workspace.                            *)
(***************************************************************************)
\* a JavaScript array
Arr(items) == [t |-> "array", items |-> items]

Pending == [t |-> "pending"]

Rejected == [t |-> "rejected"]

ScSubmission(id) ==
  [submission_id |-> id, student_name |-> Str("student"),
   similarity_score |-> JNull]

\* the submissions GET /assignment-submissions/{id}/ returns
ScServerList == <<ScSubmission(1), ScSubmission(2)>>

ScIds(list) == {list[k].submission_id : k \in DOMAIN list}

\* a row of a results table
Row(sid, web, sim, similarity, status) ==
  [status |-> status, submission_id |-> sid, web_similarity_score |-> web,
   similarity_score |-> sim, similarity |-> similarity]

\* the bodies POST /web-similarity/ may answer for submission id
WebCheckBodies(id) == {Row(id, Int2Num(10 * id), Undef, Undef, "success")}

\* web-similarity checks (Promise.all) under way at a time
MaxBatches == 1

\* fetchSubmissions requests under way at a time
MaxFetches == 1

ScInit ==
  /\ scSubmissions = <<>>
  /\ scSelectedSubmissions = <<>>
  /\ scLoading = TRUE
  /\ scError = JNull
  /\ scActiveTab = "submissions"
  /\ scWebResults = JNull
  /\ scThreshold = 0
  /\ scNotification = JNull
  /\ scBatches = {}
  /\ scPending = {[kind |-> "fetch", rid |-> 1]}

ScFetches == {r \in scPending : r.kind = "fetch"}

ScNewFetch ==
  [kind |-> "fetch",
   rid |-> CHOOSE i \in 1..(MaxFetches + 1) : \A r \in ScFetches : r.rid # i]

\* showNotification(message, type)
Notification(message, type) ==
  [t |-> "object", message |-> message, type |-> type]

\* the list is on screen: not the full-page spinner of the first load
ScListShown == scActiveTab = "submissions" /\ Len(scSubmissions) > 0

\* lists of one submission, with every score
ScScoredLists ==
  {<<[ScSubmission(1) EXCEPT !.similarity_score = score]>> :
     score \in OptionalScores}

\* submission.similarity_score !== null: the badge of a row
ScBadgeRendered(submission) == submission.similarity_score # JNull

\* fetchSubmissions after its await, the server holding one of lists
ScFetchResponseOf(lists) ==
  /\ lastEvent' = "ScFetchResponse"
  /\ \E r \in ScFetches :
       /\ scPending' = scPending \ {r}
       /\ \E ok \in BOOLEAN, list \in lists :
            IF ok
            THEN scSubmissions' = list /\ UNCHANGED scError
            ELSE scError' = Str("Failed to load submissions")
                 /\ UNCHANGED scSubmissions
  /\ scLoading' = FALSE
  /\ UNCHANGED <<scSelectedSubmissions, scActiveTab, scWebResults,
                 scThreshold, scNotification, scBatches>>
  /\ UNCHANGED <<studentVars, lavVars, cmpVars, rptVars>>

ScFetchResponse == ScFetchResponseOf({ScServerList})

\* prevSelected.filter(id => id !== submissionId)
Without(seq, id) == SelectSeq(seq, LAMBDA x : x # id)

Includes(seq, id) == \E k \in DOMAIN seq : seq[k] = id

toggleSubmissionSelection(submissionId) ==
  /\ lastEvent' = "toggleSubmissionSelection"
  /\ ScListShown /\ submissionId \in ScIds(scSubmissions)
  /\ scSelectedSubmissions' =
       IF Includes(scSelectedSubmissions, submissionId)
       THEN Without(scSelectedSubmissions, submissionId)
       ELSE Append(scSelectedSubmissions, submissionId)
  /\ UNCHANGED <<scSubmissions, scLoading, scError, scActiveTab, scWebResults,
                 scThreshold, scNotification, scBatches, scPending>>
  /\ UNCHANGED <<studentVars, lavVars, cmpVars, rptVars>>

\* a tab of the navigation is clicked; the Web Similarity tab is there
\* once webResults holds rows
TabClick(tab) ==
  /\ lastEvent' = "TabClick"
  /\ ~(scLoading /\ Len(scSubmissions) = 0)
  /\ tab = "webResults" => (Truthy(scWebResults) /\ scWebResults.items # <<>>)
  /\ scActiveTab' = tab
  /\ UNCHANGED <<scSubmissions, scSelectedSubmissions, scLoading, scError,
                 scWebResults, scThreshold, scNotification, scBatches,
                 scPending>>
  /\ UNCHANGED <<studentVars, lavVars, cmpVars, rptVars>>

\* the toast is closed, or the timer of showNotification fires
clearNotification ==
  /\ lastEvent' = "clearNotification"
  /\ scNotification # JNull
  /\ scNotification' = JNull
  /\ UNCHANGED <<scSubmissions, scSelectedSubmissions, scLoading, scError,
                 scActiveTab, scWebResults, scThreshold, scBatches, scPending>>
  /\ UNCHANGED <<studentVars, lavVars, cmpVars, rptVars>>

ScNewBid ==
  CHOOSE i \in 1..(MaxBatches + 1) : \A b \in scBatches : b.bid # i

\* selectedSubmissions.map(async (submissionId) => axios.post(...)): every
\* call runs up to its await, so one request per element is under way
\* before Promise.all is awaited
WebCheckRequests(bid, ids) ==
  {[kind |-> "web", bid |-> bid, idx |-> k, submission_id |-> ids[k]] :
     k \in DOMAIN ids}

\* checkWebSimilarity up to the await of Promise.all
checkWebSimilarity ==
  IF Len(scSelectedSubmissions) = 0
  THEN /\ scNotification' =
            Notification("Please select at least one submission to check",
                         "error")
       /\ UNCHANGED <<scLoading, scError, scBatches, scPending>>
  ELSE /\ Cardinality(scBatches) < MaxBatches
       /\ scLoading' = TRUE
       /\ scError' = JNull
       /\ scBatches' = scBatches \cup
            {[bid |-> ScNewBid, ids |-> scSelectedSubmissions,
              results |-> [k \in DOMAIN scSelectedSubmissions |-> Pending],
              waiting |-> TRUE]}
       /\ scPending' = scPending \cup
            WebCheckRequests(ScNewBid, scSelectedSubmissions)
       /\ UNCHANGED scNotification

\* the Check Web Similarity button of the submissions tab
\* (disabled={loading || selectedSubmissions.length === 0}) is clicked
CheckWebClick ==
  /\ lastEvent' = "CheckWebClick"
  /\ scActiveTab = "submissions"
  /\ ~(scLoading \/ Len(scSelectedSubmissions) = 0)
  /\ checkWebSimilarity
  /\ UNCHANGED <<scSubmissions, scSelectedSubmissions, scActiveTab,
                 scWebResults, scThreshold>>
  /\ UNCHANGED <<studentVars, lavVars, cmpVars, rptVars>>

\* a Promise.all that would fulfil with its first fulfilled element
AnyFulfilled(results) ==
  \E k \in DOMAIN results : results[k] \notin {Pending, Rejected}

\* Promise.all fulfils once no element is pending, none having rejected
AllFulfilled(results) ==
  \A k \in DOMAIN results : results[k] \notin {Pending, Rejected}

\* one request of a check settles: out is the body, or Rejected.  The
\* continuation of checkWebSimilarity runs with the first rejection (catch)
\* or with the last fulfilment (setWebResults ... fetchSubmissions), once;
\* what settles after a rejection is dropped by Promise.all.
WebCheckSettle(r, out) ==
  LET b == CHOOSE x \in scBatches : x.bid = r.bid
      results == [b.results EXCEPT ![r.idx] = out]
      left == {q \in scPending \ {r} : q.kind = "web" /\ q.bid = r.bid}
      after == [b EXCEPT !.waiting = FALSE]
  IN  IF b.waiting /\ out = Rejected
      THEN /\ scError' = Str("Web similarity check failed")
           /\ scNotification' =
                Notification("Web similarity check failed", "error")
           /\ scLoading' = FALSE
           /\ scPending' = scPending \ {r}
           /\ scBatches' =
                (scBatches \ {b}) \cup (IF left = {} THEN {} ELSE {after})
           /\ UNCHANGED <<scWebResults, scActiveTab>>
      ELSE IF b.waiting /\ AllFulfilled(results)
      THEN /\ Cardinality(ScFetches) < MaxFetches
           /\ scWebResults' = Arr(results)
           /\ scActiveTab' = "webResults"
           /\ scError' = JNull
           /\ scPending' = (scPending \ {r}) \cup {ScNewFetch}
           /\ scNotification' =
                Notification("Web similarity check completed successfully",
                             "success")
           /\ scLoading' = FALSE
           /\ scBatches' = scBatches \ {b}
      ELSE /\ scPending' = scPending \ {r}
           /\ scBatches' =
                (scBatches \ {b}) \cup
                  (IF left = {} THEN {}
                   ELSE IF b.waiting THEN {[b EXCEPT !.results = results]}
                   ELSE {b})
           /\ UNCHANGED <<scWebResults, scActiveTab, scError, scNotification,
                          scLoading>>

WebCheckResponse ==
  /\ lastEvent' = "WebCheckResponse"
  /\ \E r \in scPending :
       /\ r.kind = "web"
       /\ \E out \in WebCheckBodies(r.submission_id) \cup {Rejected} :
            WebCheckSettle(r, out)
  /\ UNCHANGED <<scSubmissions, scSelectedSubmissions, scThreshold>>
  /\ UNCHANGED <<studentVars, lavVars, cmpVars, rptVars>>

WorkspaceNext ==
  \/ ScFetchResponse
  \/ \E id \in ScIds(ScServerList) : toggleSubmissionSelection(id)
  \/ \E tab \in {"submissions", "webResults"} : TabClick(tab)
  \/ clearNotification
  \/ CheckWebClick
  \/ WebCheckResponse

\* checkWebSimilarity called as a function, whatever the button shows
CheckWebEvent ==
  /\ lastEvent' = "CheckWebEvent"
  /\ checkWebSimilarity
  /\ UNCHANGED <<scSubmissions, scSelectedSubmissions, scActiveTab,
                 scWebResults, scThreshold>>
  /\ UNCHANGED <<studentVars, lavVars, cmpVars, rptVars>>

WorkspaceCallNext ==
  \/ ScFetchResponse
  \/ \E id \in ScIds(ScServerList) : toggleSubmissionSelection(id)
  \/ \E tab \in {"submissions", "webResults"} : TabClick(tab)
  \/ CheckWebEvent
  \/ WebCheckResponse

(***************************************************************************)
(* The threshold filter of the results tables.                             *)
(***************************************************************************)
\* c || b || a || 0: the three fields looked at in the opposite order
filterScoreReversed(result) ==
  IF Truthy(result.similarity) THEN result.similarity
  ELSE IF Truthy(result.similarity_score) THEN result.similarity_score
  ELSE IF Truthy(result.web_similarity_score) THEN result.web_similarity_score
  ELSE Int2Num(0)

\* a || b || c || 0 over the three score fields of a row
filterScore(result) ==
  IF Truthy(result.web_similarity_score) THEN result.web_similarity_score
  ELSE IF Truthy(result.similarity_score) THEN result.similarity_score
  ELSE IF Truthy(result.similarity) THEN result.similarity
  ELSE Int2Num(0)

\* filterResults(results): the rows the table shows
filterResults(results) ==
  IF ~Truthy(results) THEN <<>>
  ELSE SelectSeq(results.items,
                 LAMBDA result : NumGE(filterScore(result), scThreshold))

\* the positions of the range input (min="0" max="100")
Thresholds == 0..100

\* onChange of the slider: setThreshold(Number(e.target.value))
SetThreshold(t) ==
  /\ lastEvent' = "SetThreshold"
  /\ scActiveTab = "webResults"
  /\ scThreshold' = t
  /\ UNCHANGED <<scSubmissions, scSelectedSubmissions, scLoading, scError,
                 scActiveTab, scWebResults, scNotification, scBatches,
                 scPending>>
  /\ UNCHANGED <<studentVars, lavVars, cmpVars, rptVars>>

\* rows of a results table
MaxRows == 1

\* the rows a check may have brought: each score field absent or a number
FilterRows ==
  {Row(1, web, sim, similarity, "success") :
     web \in {Undef, Int2Num(0), Int2Num(30)},
     sim \in {Undef, Int2Num(0), Int2Num(80)},
     similarity \in {Undef, Num(42, <<"5">>)}}

FilterTables ==
  UNION {[1..n -> FilterRows] : n \in 0..MaxRows}

\* the workspace once a web check has brought its rows
ScFilterInit ==
  /\ scSubmissions = ScServerList
  /\ scSelectedSubmissions = <<>>
  /\ scLoading = FALSE
  /\ scError = JNull
  /\ scActiveTab = "webResults"
  /\ scWebResults \in {Arr(rows) : rows \in FilterTables}
  /\ scThreshold = 0
  /\ scNotification = JNull
  /\ scBatches = {}
  /\ scPending = {}

FilterNext == \E t \in Thresholds : SetThreshold(t)

(***************************************************************************)
(* SimilarityChecker: the Compare Assignments tab and the comparison.      *)
(***************************************************************************)
\* a file of the file input
FileNames == {"a.txt"}

\* files waiting to be uploaded
MaxFiles == 2

\* the assignments GET /list/ returns, as fetchExistingAssignments keeps
\* them: selected: false
ExistingServerList ==
  <<[id |-> 11, selected |-> FALSE], [id |-> 12, selected |-> FALSE]>>

\* runs of checkAssignmentSimilarity under way at a time
MaxCompareRuns == 1

\* GET /list/ requests under way at a time
MaxListFetches == 1

\* the mount effect has called fetchExistingAssignments
CmpInit ==
  /\ scFiles = <<>>
  /\ scExistingAssignments = <<>>
  /\ scAssignmentResults = JNull
  /\ scListFetches = 1
  /\ scCompare = {}

UnchangedWorkspace ==
  UNCHANGED <<scSubmissions, scSelectedSubmissions, scLoading, scError,
              scActiveTab, scWebResults, scThreshold, scNotification,
              scBatches, scPending>>

\* fetchExistingAssignments after its await
ListFetchResponse ==
  /\ lastEvent' = "ListFetchResponse"
  /\ scListFetches > 0
  /\ scListFetches' = scListFetches - 1
  /\ \E ok \in BOOLEAN :
       scExistingAssignments' =
         IF ok THEN ExistingServerList ELSE scExistingAssignments
  /\ UNCHANGED <<scFiles, scAssignmentResults, scCompare>>
  /\ UnchangedWorkspace
  /\ UNCHANGED <<studentVars, lavVars, rptVars>>

CompareTabShown == scActiveTab = "compareAssignments"

\* handleFileChange of the workspace: the files picked are appended
scHandleFileChange(picked) ==
  /\ lastEvent' = "scHandleFileChange"
  /\ CompareTabShown
  /\ Len(scFiles) + Len(picked) <= MaxFiles
  /\ scFiles' = scFiles \o picked
  /\ UNCHANGED <<scExistingAssignments, scAssignmentResults, scListFetches,
                 scCompare>>
  /\ UnchangedWorkspace
  /\ UNCHANGED <<studentVars, lavVars, rptVars>>

\* prevFiles.filter((_, i) => i !== index), index counted from 1 here
removeFile(index) ==
  /\ lastEvent' = "removeFile"
  /\ CompareTabShown
  /\ index \in DOMAIN scFiles
  /\ scFiles' = [k \in 1..(Len(scFiles) - 1) |->
                   IF k < index THEN scFiles[k] ELSE scFiles[k + 1]]
  /\ UNCHANGED <<scExistingAssignments, scAssignmentResults, scListFetches,
                 scCompare>>
  /\ UnchangedWorkspace
  /\ UNCHANGED <<studentVars, lavVars, rptVars>>

\* the Clear All button, shown while files are listed
clearFiles ==
  /\ lastEvent' = "clearFiles"
  /\ CompareTabShown
  /\ Len(scFiles) > 0
  /\ scFiles' = <<>>
  /\ UNCHANGED <<scExistingAssignments, scAssignmentResults, scListFetches,
                 scCompare>>
  /\ UnchangedWorkspace
  /\ UNCHANGED <<studentVars, lavVars, rptVars>>

toggleAssignmentSelection(assignmentId) ==
  /\ lastEvent' = "toggleAssignmentSelection"
  /\ CompareTabShown
  /\ \E k \in DOMAIN scExistingAssignments :
       scExistingAssignments[k].id = assignmentId
  /\ scExistingAssignments' =
       [k \in DOMAIN scExistingAssignments |->
          IF scExistingAssignments[k].id = assignmentId
          THEN [scExistingAssignments[k] EXCEPT !.selected = ~@]
          ELSE scExistingAssignments[k]]
  /\ UNCHANGED <<scFiles, scAssignmentResults, scListFetches, scCompare>>
  /\ UnchangedWorkspace
  /\ UNCHANGED <<studentVars, lavVars, rptVars>>

\* existingAssignments.filter(a => a.selected)
SelectedAssignments ==
  SelectSeq(scExistingAssignments, LAMBDA a : a.selected)

\* selectedAssignments.map(assignment => assignment.id)
SelectedAssignmentIds ==
  [k \in DOMAIN SelectedAssignments |-> SelectedAssignments[k].id]

NewCid ==
  CHOOSE i \in 1..(MaxCompareRuns + 1) : \A c \in scCompare : c.cid # i

\* a run of checkAssignmentSimilarity at an await: at the uploads (up holds
\* what each upload of Promise.all brought so far) or at POST /compare/
\* (ids is its assignment_ids).  An upload that answers after Promise.all
\* has rejected is read by nothing and is not followed.
CompareRun(kind, step, up, sel, ids) ==
  [cid |-> NewCid, kind |-> kind, step |-> step, up |-> up, sel |-> sel,
   ids |-> ids]

TooFewMessage == "Please select at least two files or assignments to compare"

TooFewUploaded == "Please select at least two assignments to compare"

NeverTooFew == FALSE

\* totalAssignments < 2
TooFewSelected == Len(scFiles) + Len(SelectedAssignments) < 2

\* checkAssignmentSimilarity up to its first await
checkAssignmentSimilarity ==
  IF scActiveTab = "submissions" /\ Len(scSelectedSubmissions) >= 2
  THEN /\ Cardinality(scCompare) < MaxCompareRuns
       /\ scLoading' = TRUE
       /\ scError' = JNull
       /\ scCompare' = scCompare \cup
            {CompareRun("submissions", "compare", <<>>, <<>>,
                        scSelectedSubmissions)}
  ELSE IF TooFewSelected
  THEN /\ scError' = Str(TooFewMessage)
       /\ UNCHANGED <<scLoading, scCompare>>
  ELSE /\ Cardinality(scCompare) < MaxCompareRuns
       /\ scLoading' = TRUE
       /\ scError' = JNull
       /\ scCompare' = scCompare \cup
            {IF Len(scFiles) > 0
             THEN CompareRun("assignments", "upload",
                             [k \in DOMAIN scFiles |-> Pending],
                             SelectedAssignmentIds, <<>>)
             ELSE CompareRun("assignments", "compare", <<>>,
                             SelectedAssignmentIds, SelectedAssignmentIds)}

\* checkAssignmentSimilarity called as a function, whatever the buttons show
CompareEvent ==
  /\ lastEvent' = "CompareEvent"
  /\ checkAssignmentSimilarity
  /\ UNCHANGED <<scFiles, scExistingAssignments, scAssignmentResults,
                 scListFetches>>
  /\ UNCHANGED <<scSubmissions, scSelectedSubmissions, scActiveTab,
                 scWebResults, scThreshold, scNotification, scBatches,
                 scPending>>
  /\ UNCHANGED <<studentVars, lavVars, rptVars>>

\* the body POST /upload/ returns for the k-th file of a run
UploadBody(k) == [t |-> "object", assignment_id |-> 100 + k]

\* uploadResults.map(result => result.assignment_id)
UploadedIds(up) == [k \in DOMAIN up |-> up[k].assignment_id]

\* uploadFiles returned []: the run goes on with the selected assignments
\* unless they are fewer than two
UploadFailedStops(run) == Len(run.sel) < 2

\* the k-th upload of a run settles: out is its body, or Rejected.  With
\* the first rejection uploadFiles returns [] (catch); with the last
\* fulfilment it refreshes the list, clears the files and returns the
\* bodies; checkAssignmentSimilarity then goes on to POST /compare/ when
\* assignmentIds holds two ids or more.
UploadSettle(run, k, out) ==
  LET up == [run.up EXCEPT ![k] = out]
  IN  IF out = Rejected
      THEN /\ scError' = Str("Upload failed")
           /\ scLoading' = FALSE
           /\ scCompare' = (scCompare \ {run}) \cup
                IF ~UploadFailedStops(run)
                THEN {[run EXCEPT !.step = "compare", !.up = <<>>,
                                  !.ids = run.sel]}
                ELSE {}
           /\ UNCHANGED <<scFiles, scListFetches>>
      ELSE IF AllFulfilled(up)
      THEN /\ scListFetches < MaxListFetches
           /\ scListFetches' = scListFetches + 1
           /\ scFiles' = <<>>
           /\ scLoading' = FALSE
           /\ IF Len(UploadedIds(up) \o run.sel) < 2
              THEN /\ scError' = Str(TooFewUploaded)
                   /\ scCompare' = scCompare \ {run}
              ELSE /\ scCompare' = (scCompare \ {run}) \cup
                        {[run EXCEPT !.step = "compare", !.up = <<>>,
                                     !.ids = UploadedIds(up) \o run.sel]}
                   /\ UNCHANGED scError
      ELSE /\ scCompare' = (scCompare \ {run}) \cup {[run EXCEPT !.up = up]}
           /\ UNCHANGED <<scError, scLoading, scFiles, scListFetches>>

UploadResponse ==
  /\ lastEvent' = "UploadResponse"
  /\ \E run \in scCompare :
       /\ run.step = "upload"
       /\ \E k \in DOMAIN run.up :
            /\ run.up[k] = Pending
            /\ \E out \in {UploadBody(k), Rejected} : UploadSettle(run, k, out)
  /\ UNCHANGED <<scExistingAssignments, scAssignmentResults>>
  /\ UNCHANGED <<scSubmissions, scSelectedSubmissions, scActiveTab,
                 scWebResults, scThreshold, scNotification, scBatches,
                 scPending>>
  /\ UNCHANGED <<studentVars, lavVars, rptVars>>

\* a row of response.data.results
CompareRow(ids) ==
  [assignment1_id |-> 1, assignment2_id |-> 2,
   web_similarity_score |-> Undef, similarity_score |-> Int2Num(50),
   similarity |-> Undef]

\* what may come back for POST /compare/
CompareResponses(run) ==
  [rejected : {TRUE}, message : {Undef}]
    \cup [rejected : {FALSE}, status : {"success"},
          results : {<<CompareRow(run.ids)>>}, message : {Undef}]
    \cup [rejected : {FALSE}, status : {"error"},
          message : {Str(BackendMessage)}]

\* checkAssignmentSimilarity after the await of POST /compare/
CompareSettle(run, resp) ==
  /\ IF ~resp.rejected /\ resp.status = "success"
     THEN /\ scAssignmentResults' = Arr(resp.results)
          /\ scActiveTab' = "assignmentResults"
          /\ scNotification' =
               Notification(IF run.kind = "submissions"
                            THEN "Submissions compared successfully"
                            ELSE "Assignments compared successfully",
                            "success")
          /\ UNCHANGED scError
     ELSE /\ scError' =
               IF resp.rejected THEN Str("Comparison failed")
               ELSE resp.message
          /\ scNotification' =
               Notification(IF resp.rejected THEN "Comparison failed"
                            ELSE resp.message.s, "error")
          /\ UNCHANGED <<scAssignmentResults, scActiveTab>>
  /\ scLoading' = FALSE
  /\ scCompare' = scCompare \ {run}

CompareResponse ==
  /\ lastEvent' = "CompareResponse"
  /\ \E run \in scCompare :
       /\ run.step = "compare"
       /\ \E resp \in CompareResponses(run) : CompareSettle(run, resp)
  /\ UNCHANGED <<scFiles, scExistingAssignments, scListFetches>>
  /\ UNCHANGED <<scSubmissions, scSelectedSubmissions, scWebResults,
                 scThreshold, scBatches, scPending>>
  /\ UNCHANGED <<studentVars, lavVars, rptVars>>

CompareNext ==
  \/ ScFetchResponse
  \/ ListFetchResponse
  \/ \E id \in ScIds(ScServerList) : toggleSubmissionSelection(id)
  \/ \E tab \in {"submissions", "compareAssignments"} : TabClick(tab)
  \/ \E f \in FileNames : scHandleFileChange(<<f>>)
  \/ \E index \in 1..MaxFiles : removeFile(index)
  \/ clearFiles
  \/ \E k \in DOMAIN ExistingServerList :
       toggleAssignmentSelection(ExistingServerList[k].id)
  \/ CompareEvent
  \/ UploadResponse
  \/ CompareResponse

RptInit ==
  /\ rptMounted = FALSE
  /\ rptAssignmentResults = JNull
  /\ rptReportUrl = JNull
  /\ rptLoading = FALSE
  /\ rptReportData = JNull
  /\ rptError = JNull
  /\ rptSimilarTexts = [text1 |-> <<>>, text2 |-> <<>>]
  /\ rptContents = <<JNull, JNull>>
  /\ rptPending = {}
  /\ rptPdf = JNull
  /\ rptChain = <<>>

(***************************************************************************)
(* AssignmentSimilarityReport: the fallback matcher.  A text is the        *)
(* sequence of its characters.                                             *)
(***************************************************************************)
TextAlphabet == {"a", "b", ".", " "}

\* characters of a submission's content
MaxTextLen == 4

Terminal == {".", "!", "?"}

Whitespace == {" "}

\* first position from i on that holds no whitespace
RECURSIVE SkipWhitespace(_, _)
SkipWhitespace(s, i) ==
  IF i <= Len(s) /\ s[i] \in Whitespace THEN SkipWhitespace(s, i + 1) ELSE i

\* s.split(/(?<=[.!?])\s+/) from position i on, cur being the unit so far:
\* a run of whitespace that follows a terminal character separates units
RECURSIVE SplitFrom(_, _, _)
SplitFrom(s, i, cur) ==
  IF i > Len(s) THEN <<cur>>
  ELSE IF s[i] \in Whitespace /\ i > 1 /\ s[i - 1] \in Terminal
  THEN <<cur>> \o SplitFrom(s, SkipWhitespace(s, i), <<>>)
  ELSE SplitFrom(s, i + 1, Append(cur, s[i]))

SplitSentences(s) == SplitFrom(s, 1, <<>>)

\* a ratio num / den
Ratio(num, den) == [num |-> num, den |-> den]

calculateStringSimilarity(str1, str2) ==
  IF str1 = <<>> \/ str2 = <<>> THEN Ratio(0, 1)
  ELSE IF str1 = str2 THEN Ratio(1, 1)
  ELSE LET longer == IF Len(str1) > Len(str2) THEN str1 ELSE str2
           shorter == IF Len(str1) > Len(str2) THEN str2 ELSE str1
           matches ==
             Cardinality({i \in 1..Len(shorter) : shorter[i] = longer[i]})
       IN  Ratio(matches, Len(longer))

NeverAbove(r) == FALSE

\* similarity > 0.7
AboveThreshold(r) == 10 * r.num > 7 * r.den

\* Math.round(similarity * 100)
RoundPercent(r) == (200 * r.num + r.den) \div (2 * r.den)

Segment(text, isMatch, percentage) ==
  [text |-> text, isMatch |-> isMatch, percentage |-> percentage]

\* the pairs pushed for unit i of text1, from unit j of text2 on
RECURSIVE SimilarFrom(_, _, _, _)
SimilarFrom(segments1, segments2, i, j) ==
  IF i > Len(segments1) THEN <<>>
  ELSE IF j > Len(segments2) THEN SimilarFrom(segments1, segments2, i + 1, 1)
  ELSE LET similarity ==
             calculateStringSimilarity(segments1[i], segments2[j])
           rest == SimilarFrom(segments1, segments2, i, j + 1)
       IN  IF AboveThreshold(similarity)
           THEN <<[text1 |-> segments1[i], text2 |-> segments2[j],
                   text1Index |-> i, text2Index |-> j,
                   similarity |-> RoundPercent(similarity)]>> \o rest
           ELSE rest

\* pane 2 filled in the order the pairs were pushed
KeepPushOrder(similarSegments, j, n) == similarSegments

\* [...similarSegments].sort((a, b) => a.text2Index - b.text2Index): the
\* sort is stable, the pairs of one index keep their order
RECURSIVE SortByText2Index(_, _, _)
SortByText2Index(similarSegments, j, n) ==
  IF j > n THEN <<>>
  ELSE SelectSeq(similarSegments, LAMBDA m : m.text2Index = j)
         \o SortByText2Index(similarSegments, j + 1, n)

\* similarityScore > 0 for a score that is a number
Positive(score) == IsNum(score) /\ Truthy(score)

\* what processAndHighlightContent passes to setSimilarTexts; the pairs
\* are pushed by ascending text1Index already
processAndHighlightContent(text1, text2, score) ==
  LET segments1 == SplitSentences(text1)
      segments2 == SplitSentences(text2)
      similarSegments == SimilarFrom(segments1, segments2, 1, 1)
      sortedSegments2 ==
        SortByText2Index(similarSegments, 1, Len(segments2))
      text1Segments ==
        [k \in DOMAIN similarSegments |->
           Segment(Chars(similarSegments[k].text1), TRUE,
                   Int2Num(similarSegments[k].similarity))]
      text2Segments ==
        [k \in DOMAIN sortedSegments2 |->
           Segment(Chars(sortedSegments2[k].text2), TRUE,
                   Int2Num(sortedSegments2[k].similarity))]
  IN  IF similarSegments = <<>> /\ Positive(score)
      THEN [text1 |-> <<Segment(Chars(text1), TRUE, score)>>,
            text2 |-> <<Segment(Chars(text2), TRUE, score)>>]
      ELSE [text1 |-> text1Segments, text2 |-> text2Segments]

(***************************************************************************)
(* AssignmentSimilarityReport: the report view.  The effect and every      *)
(* function it calls belong to the first render, whose reportData is the   *)
(* initial null: that is the reportData their closures read.               *)
(***************************************************************************)
\* an element of data.assignment
RptItem(url, id1, id2, similarity) ==
  [report_url |-> url, assignment1_id |-> id1, assignment2_id |-> id2,
   similarity |-> similarity]

\* report data of the shape { report_url, assignment: [...] }
RptResults(url, items) ==
  [t |-> "results", report_url |-> url, assignment |-> Arr(items)]

\* a row of the workspace's results table, which viewDetailedComparisonReport
\* hands over as assignmentResults: it has no assignment list
RptRow(url, id1, id2) ==
  [t |-> "row", report_url |-> url, assignment1_id |-> id1,
   assignment2_id |-> id2, assignment |-> Undef]

ReportPdf == Str("/media/reports/r.pdf")

RptItems ==
  {RptItem(url, ids[1], ids[2], sim) :
     url \in {Undef, ReportPdf},
     ids \in {<<Int2Num(1), Int2Num(2)>>, <<Undef, Int2Num(2)>>},
     sim \in {Int2Num(0), Int2Num(40)}}

\* what the view may be entered with as assignmentResults
RptPayloads ==
  {RptResults(Undef, <<item>>) : item \in RptItems}
    \cup {RptResults(Undef, <<>>),
          RptRow(ReportPdf, Int2Num(1), Int2Num(2))}

\* the reportUrl prop of a view entered with a report identifier
ReportLink == Str("/reports/5")

\* data && data.assignment && data.assignment.length
HasItems(data) ==
  /\ Truthy(data)
  /\ Truthy(data.assignment)
  /\ Len(data.assignment.items) > 0

FirstItem(data) == data.assignment.items[1]

BothIds(item) == Truthy(item.assignment1_id) /\ Truthy(item.assignment2_id)

CapturedReportData == JNull

\* reportData || assignmentResults, as the closures read it
FallbackData ==
  IF Truthy(CapturedReportData) THEN CapturedReportData
  ELSE rptAssignmentResults

NoSimilarity == Str("No similarity detected between documents.")

ApproximatePlaceholder == Str("This document contains approximately %")

SeePdfPlaceholder == Str("The system has detected matching content")

\* what createPlaceholderSegments(data) passes to setSimilarTexts, for data
\* with a first item
PlaceholderSegments(data) ==
  LET similarity ==
        IF Truthy(FirstItem(data).similarity)
        THEN FirstItem(data).similarity ELSE Int2Num(0)
      pane ==
        IF similarity = Int2Num(0)
        THEN <<Segment(NoSimilarity, FALSE, Undef)>>
        ELSE <<Segment(ApproximatePlaceholder, TRUE, similarity),
               Segment(SeePdfPlaceholder, FALSE, Undef)>>
  IN  [text1 |-> pane, text2 |-> pane]

ChainStep(step, out) == [step |-> step, out |-> out]

\* the last step of the chain gets its outcome
Settled(chain, out) == [chain EXCEPT ![Len(chain)].out = out]

\* createPlaceholderSegments(data), appended to the chain
createPlaceholderSegments(data, chain) ==
  /\ rptSimilarTexts' =
       IF HasItems(data) THEN PlaceholderSegments(data) ELSE rptSimilarTexts
  /\ rptChain' =
       Append(chain, ChainStep("placeholder",
                               IF HasItems(data) THEN "ok" ELSE "skipped"))
  /\ rptPending' = rptPending \ {"report", "extract", "detailed", "contents"}

\* a request of the chain is issued
RptRequest(endpoint, chain) ==
  /\ rptChain' = Append(chain, ChainStep(endpoint, "pending"))
  /\ rptPending' =
       (rptPending \ {"report", "extract", "detailed", "contents"})
         \cup {endpoint}
  /\ UNCHANGED rptSimilarTexts

\* the choice made by the effect for assignmentResults and by
\* fetchReportData for response.data: item.report_url, else both ids, else
\* the placeholder
ResolveItem(data, chain) ==
  IF Truthy(FirstItem(data).report_url) THEN RptRequest("extract", chain)
  ELSE IF BothIds(FirstItem(data)) THEN RptRequest("detailed", chain)
  ELSE createPlaceholderSegments(data, chain)

\* the effect of the first render
RptMount(results, url) ==
  /\ lastEvent' = "RptMount"
  /\ ~rptMounted
  /\ rptMounted' = TRUE
  /\ rptAssignmentResults' = results
  /\ rptReportUrl' = url
  /\ IF Truthy(url) /\ ~Truthy(results)
     THEN /\ rptLoading' = TRUE
          /\ RptRequest("report", rptChain)
          /\ UNCHANGED <<rptReportData, rptError>>
     ELSE IF Truthy(results)
     THEN /\ rptReportData' = results
          /\ IF HasItems(results)
             THEN /\ ResolveItem(results, rptChain)
                  /\ rptLoading' =
                       \/ Truthy(FirstItem(results).report_url)
                       \/ BothIds(FirstItem(results))
             ELSE UNCHANGED <<rptLoading, rptSimilarTexts, rptPending,
                              rptChain>>
          /\ UNCHANGED rptError
     ELSE UNCHANGED <<rptLoading, rptReportData, rptError, rptSimilarTexts,
                      rptPending, rptChain>>
  /\ UNCHANGED rptContents
  /\ UNCHANGED <<studentVars, lavVars, scVars, cmpVars, rptPdf>>

\* what GET /reports/{id} may bring as response.data
ReportBodies ==
  {Undef, RptResults(ReportPdf, <<>>), RptResults(Undef, <<>>),
   RptResults(Undef, <<RptItem(Undef, Int2Num(1), Int2Num(2), Int2Num(0))>>),
   RptResults(Undef, <<RptItem(Undef, Int2Num(1), Int2Num(2), Int2Num(40))>>),
   RptResults(Undef, <<RptItem(Undef, Undef, Undef, Int2Num(40))>>)}

\* fetchReportData after its await; loading ends false (finally) whatever
\* was started
ReportSettle(out) ==
  /\ rptLoading' = FALSE
  /\ IF out = Rejected
     THEN /\ rptError' = Str("Failed to load report")
          /\ rptChain' = Settled(rptChain, "failed")
          /\ rptPending' = rptPending \ {"report"}
          /\ UNCHANGED <<rptReportData, rptSimilarTexts>>
     ELSE IF ~Truthy(out)
     THEN /\ rptError' = Str("Could not load report data")
          /\ rptChain' = Settled(rptChain, "failed")
          /\ rptPending' = rptPending \ {"report"}
          /\ UNCHANGED <<rptReportData, rptSimilarTexts>>
     ELSE /\ rptReportData' = out
          /\ UNCHANGED rptError
          /\ IF Truthy(out.report_url)
             THEN RptRequest("extract", Settled(rptChain, "ok"))
             ELSE IF HasItems(out)
             THEN IF BothIds(FirstItem(out))
                  THEN RptRequest("detailed", Settled(rptChain, "ok"))
                  ELSE createPlaceholderSegments(out, Settled(rptChain, "ok"))
             ELSE /\ rptChain' = Settled(rptChain, "ok")
                  /\ rptPending' = rptPending \ {"report"}
                  /\ UNCHANGED rptSimilarTexts

ReportResponse ==
  /\ lastEvent' = "ReportResponse"
  /\ "report" \in rptPending
  /\ \E out \in ReportBodies \cup {Rejected} : ReportSettle(out)
  /\ UNCHANGED <<rptMounted, rptAssignmentResults, rptReportUrl, rptContents>>
  /\ UNCHANGED <<studentVars, lavVars, scVars, cmpVars, rptPdf>>

ServerSegment == Segment(Str("matched by the backend"), TRUE, Int2Num(90))

\* a body with status 'success' and its two lists of segments, or without
\* them
SegmentBodies ==
  {[status |-> "success", text1 |-> Arr(<<ServerSegment>>),
    text2 |-> Arr(<<ServerSegment>>)],
   [status |-> "success", text1 |-> Undef, text2 |-> Undef]}

FailureBodies == {[status |-> "error", text1 |-> Undef, text2 |-> Undef]}

\* segments || []
OrEmpty(segments) == IF Truthy(segments) THEN segments.items ELSE <<>>

fallbackSkipsComparison(chain) == createPlaceholderSegments(FallbackData, chain)

\* fallbackToDefaultMethods: the ids of the first item, else the placeholder
fallbackToDefaultMethods(chain) ==
  IF HasItems(FallbackData) /\ BothIds(FirstItem(FallbackData))
  THEN RptRequest("detailed", chain)
  ELSE createPlaceholderSegments(FallbackData, chain)

\* fetchPdfReportContent after its await
ExtractSettle(out) ==
  /\ rptLoading' = FALSE
  /\ IF out # Rejected /\ out.status = "success"
     THEN /\ rptSimilarTexts' =
               [text1 |-> OrEmpty(out.text1), text2 |-> OrEmpty(out.text2)]
          /\ rptChain' = Settled(rptChain, "ok")
          /\ rptPending' = rptPending \ {"extract"}
     ELSE fallbackToDefaultMethods(Settled(rptChain, "failed"))

ExtractResponse(bodies) ==
  /\ lastEvent' = "ExtractResponse"
  /\ "extract" \in rptPending
  /\ \E out \in bodies : ExtractSettle(out)
  /\ UNCHANGED <<rptMounted, rptAssignmentResults, rptReportUrl,
                 rptReportData, rptError, rptContents>>
  /\ UNCHANGED <<studentVars, lavVars, scVars, cmpVars, rptPdf>>

\* fetchSubmissionContents after the await of POST /detailed-comparison/:
\* a body without success goes on to the two POST /submission-content/
DetailedSettle(out) ==
  IF out = Rejected
  THEN /\ createPlaceholderSegments(FallbackData, Settled(rptChain, "failed"))
       /\ rptLoading' = FALSE
  ELSE IF out.status = "success"
  THEN /\ rptSimilarTexts' =
            [text1 |-> OrEmpty(out.text1), text2 |-> OrEmpty(out.text2)]
       /\ rptChain' = Settled(rptChain, "ok")
       /\ rptPending' = rptPending \ {"detailed"}
       /\ rptLoading' = FALSE
  ELSE /\ RptRequest("contents", Settled(rptChain, "failed"))
       /\ UNCHANGED rptLoading

DetailedResponse ==
  /\ lastEvent' = "DetailedResponse"
  /\ "detailed" \in rptPending
  /\ \E out \in SegmentBodies \cup FailureBodies \cup {Rejected} :
       DetailedSettle(out)
  /\ UNCHANGED <<rptMounted, rptAssignmentResults, rptReportUrl,
                 rptReportData, rptError, rptContents>>
  /\ UNCHANGED <<studentVars, lavVars, scVars, cmpVars, rptPdf>>

\* reportData?.assignment?.[0]?.similarity ||
\* assignmentResults?.assignment?.[0]?.similarity || 100
AggregateSimilarity ==
  IF HasItems(FallbackData) /\ Truthy(FirstItem(FallbackData).similarity)
  THEN FirstItem(FallbackData).similarity
  ELSE Int2Num(100)

\* every text of at most MaxTextLen characters
AllTexts == UNION {[1..n -> TextAlphabet] : n \in 0..MaxTextLen}

\* what fetchSubmissionContent may return: the content, or null
AllContents == {JNull} \cup {Chars(cs) : cs \in AllTexts}

SomeContents ==
  {JNull, Chars(<<>>), Chars(<<"a", ".", " ", "b">>), Chars(<<"b">>)}

\* fetchSubmissionContents after Promise.all of the two contents, which
\* never rejects (fetchSubmissionContent catches)
ContentsSettle(content1, content2) ==
  /\ rptContents' = <<content1, content2>>
  /\ rptLoading' = FALSE
  /\ IF Truthy(content1) /\ Truthy(content2)
     THEN /\ rptSimilarTexts' =
               processAndHighlightContent(content1.ch, content2.ch,
                                          AggregateSimilarity)
          /\ rptChain' = Settled(rptChain, "ok")
          /\ rptPending' = rptPending \ {"contents"}
     ELSE createPlaceholderSegments(FallbackData,
                                    Settled(rptChain, "failed"))

ContentsResponse(contents) ==
  /\ lastEvent' = "ContentsResponse"
  /\ "contents" \in rptPending
  /\ \E content1 \in contents, content2 \in contents :
       ContentsSettle(content1, content2)
  /\ UNCHANGED <<rptMounted, rptAssignmentResults, rptReportUrl,
                 rptReportData, rptError>>
  /\ UNCHANGED <<studentVars, lavVars, scVars, cmpVars, rptPdf>>

\* the report is on screen (reportRef.current is set): neither the
\* spinner, nor the error, nor the "No report data" notice is rendered
ReportRendered ==
  /\ ~(rptLoading /\ ~Truthy(rptReportData))
  /\ ~Truthy(rptError)
  /\ Truthy(rptReportData)

\* generatePDFReport up to html2canvas
generatePDFReport ==
  /\ lastEvent' = "generatePDFReport"
  /\ ReportRendered
  /\ "pdf" \notin rptPending
  /\ rptLoading' = TRUE
  /\ rptPending' = rptPending \cup {"pdf"}
  /\ UNCHANGED <<rptMounted, rptAssignmentResults, rptReportUrl,
                 rptReportData, rptError, rptSimilarTexts, rptContents,
                 rptChain>>
  /\ UNCHANGED <<studentVars, lavVars, scVars, cmpVars, rptPdf>>

\* const pageHeight = 295
pageHeight == 295

\* heights of the image in the same unit, up to three pages and more
MaxImgHeight == 900

ImgHeights == 1..MaxImgHeight

\* the while loop: one page added per pass, at position heightLeft -
\* imgHeight
RECURSIVE AddPages(_, _)
AddPages(imgHeight, heightLeft) ==
  IF heightLeft >= 0
  THEN <<heightLeft - imgHeight>>
         \o AddPages(imgHeight, heightLeft - pageHeight)
  ELSE <<>>

\* the position of the image on each page of the document: page 1 at 0,
\* then the pages of the loop
PagePositions(imgHeight) ==
  <<0>> \o AddPages(imgHeight, imgHeight - pageHeight)

\* generatePDFReport after html2canvas settled: the pages are laid out and
\* the document is saved, or the catch block runs
PdfResponseOf(heights) ==
  /\ lastEvent' = "PdfResponse"
  /\ "pdf" \in rptPending
  /\ rptPending' = rptPending \ {"pdf"}
  /\ rptLoading' = FALSE
  /\ \E ok \in BOOLEAN :
       IF ok
       THEN /\ \E imgHeight \in heights :
                 rptPdf' = [imgHeight |-> imgHeight,
                            positions |-> PagePositions(imgHeight)]
            /\ UNCHANGED rptError
       ELSE /\ rptError' = Str("Failed to generate PDF")
            /\ UNCHANGED rptPdf
  /\ UNCHANGED <<rptMounted, rptAssignmentResults, rptReportUrl,
                 rptReportData, rptSimilarTexts, rptContents, rptChain>>
  /\ UNCHANGED <<studentVars, lavVars, scVars, cmpVars>>

PdfResponse == PdfResponseOf({MaxImgHeight})

RptEntries ==
  {<<results, JNull>> : results \in RptPayloads}
    \cup {<<JNull, ReportLink>>, <<JNull, JNull>>}

ReportNext ==
  \/ \E entry \in RptEntries : RptMount(entry[1], entry[2])
  \/ ReportResponse
  \/ ExtractResponse(SegmentBodies \cup FailureBodies \cup {Rejected})
  \/ DetailedResponse
  \/ ContentsResponse(SomeContents)
  \/ generatePDFReport
  \/ PdfResponse

\* segment.percentage || (isMatch ? 75 : 0)
EffectivePercentage(segment) ==
  IF Truthy(segment.percentage) THEN segment.percentage
  ELSE IF segment.isMatch THEN Int2Num(75) ELSE Int2Num(0)

\* the colour highlightMatches selects for a percentage
bgColor(percentage) ==
  IF NumGE(percentage, 75) THEN Str("#ff9999")
  ELSE IF NumGE(percentage, 50) THEN Str("#ffcc99")
  ELSE IF NumGE(percentage, 25) THEN Str("#ffff99")
  ELSE Str("#e6ffe6")

\* the span highlightMatches renders for a segment: its text (the texts
\* here are shorter than the 100 characters after which it is cut), its
\* background colour and the percentage it is labelled with, both absent
\* for a segment that is no match
HighlightSpan(segment) ==
  IF ~segment.isMatch
  THEN [text |-> segment.text, backgroundColor |-> Undef, label |-> Undef]
  ELSE [text |-> segment.text,
        backgroundColor |-> bgColor(EffectivePercentage(segment)),
        label |-> EffectivePercentage(segment)]

\* highlightMatches(segments) for a list that is not empty
highlightMatches(segments) ==
  [k \in DOMAIN segments |-> HighlightSpan(segments[k])]

Percentages == 0..100

\* segments as the backend may send them: matched or not, with every
\* percentage or without one
HighlightSegments ==
  {Segment(Str("text"), isMatch, p) :
     isMatch \in BOOLEAN,
     p \in {Undef} \cup {Int2Num(n) : n \in Percentages}}

HighlightBodies ==
  {[status |-> "success", text1 |-> Arr(<<segment>>),
    text2 |-> Arr(<<ServerSegment, segment>>)] :
     segment \in HighlightSegments}

HighlightEntries ==
  {<<RptResults(Undef, <<RptItem(ReportPdf, Undef, Undef, Int2Num(40))>>),
     JNull>>}

HighlightNext ==
  \/ \E entry \in HighlightEntries : RptMount(entry[1], entry[2])
  \/ ExtractResponse(HighlightBodies \cup {Rejected})

\* entries that lead to the fallback matcher
MatcherEntries ==
  {<<RptResults(Undef,
                <<RptItem(Undef, Int2Num(1), Int2Num(2), sim)>>), JNull>> :
     sim \in {Int2Num(0), Int2Num(40)}}

MatcherNext ==
  \/ \E entry \in MatcherEntries : RptMount(entry[1], entry[2])
  \/ DetailedResponse
  \/ ContentsResponse(AllContents)

\* the view is entered with a report link only and ends in the fallback
\* matcher
ReportLinkNext ==
  \/ RptMount(JNull, ReportLink)
  \/ ReportResponse
  \/ ExtractResponse(FailureBodies \cup {Rejected})
  \/ DetailedResponse
  \/ ContentsResponse(AllContents)

\* the two lists of the lecturer arrive, their submissions with or without
\* a score
ListBadgeNext ==
  \/ LavFetchResponseOf(LavScoredLists)
  \/ ScFetchResponseOf(ScScoredLists)

\* a report with nothing to resolve is on screen and is exported
PdfNext ==
  \/ RptMount(RptResults(Undef, <<>>), JNull)
  \/ generatePDFReport
  \/ PdfResponseOf(ImgHeights)

Init ==
  StudentInit /\ LavInit /\ ScInit /\ CmpInit /\ RptInit
    /\ lastEvent = "mount"

FilterInit ==
  StudentInit /\ LavInit /\ ScFilterInit /\ CmpInit /\ RptInit
    /\ lastEvent = "mount"

Spec == Init /\ [][StudentNext]_vars

SpecForm == Init /\ [][StudentFormNext]_vars

SpecBadge == Init /\ [][StudentBadgeNext]_vars

SpecGrade == Init /\ [][GradeNext]_vars

SpecWorkspace == Init /\ [][WorkspaceNext]_vars

SpecWorkspaceCall == Init /\ [][WorkspaceCallNext]_vars

SpecFilter == FilterInit /\ [][FilterNext]_vars

SpecCompare == Init /\ [][CompareNext]_vars

SpecReport == Init /\ [][ReportNext]_vars

SpecMatcher == Init /\ [][MatcherNext]_vars

SpecHighlight == Init /\ [][HighlightNext]_vars

SpecDownload == Init /\ [][StudentDownloadNext]_vars

SpecListBadge == Init /\ [][ListBadgeNext]_vars

SpecPdf == Init /\ [][PdfNext]_vars

SpecReportLink == Init /\ [][ReportLinkNext]_vars

(***************************************************************************)
(* Properties of the student submission view.                              *)
(***************************************************************************)
DeleteRequests == {q \in pending : q.kind = "delete"}

WebRequests == {q \in pending : q.kind = "web"}

\* nothing of a submission is left in the view or in local storage
Cleared ==
  /\ localStorage[StatusKey] = JNull
  /\ localStorage[DataKey] = JNull
  /\ ~submitted
  /\ submissionData = JNull
  /\ similarityScore = JNull
  /\ reportUrl = JNull
  /\ reportFilename = JNull

\* the step ends a run of handleRemove: the handler returned, or its last
\* request was answered
RemoveCompletes ==
  /\ lastEvent' \in {"RemoveClick", "DeleteResponse", "ReportDeleteResponse"}
  /\ DeleteRequests' \subseteq DeleteRequests

\* C1: whenever a run of handleRemove completes, whatever the server
\* answered, both keys are absent from local storage and the view is
\* unsubmitted with submission record, score, report URL and report
\* filename cleared.
C1_RemoveAlwaysClears == [][RemoveCompletes => Cleared']_vars

\* the check action is invoked in a state where it reaches the cache test
CheckInvoked ==
  /\ lastEvent' = "CheckClick"
  /\ Truthy(submissionData) /\ Truthy(submissionData.submission_id)

\* C2 as stated: whenever a similarity score is cached, invoking the check
\* action issues no web-similarity request.
C2_ScoreAloneSkipsRequest ==
  [][(CheckInvoked /\ similarityScore # JNull) => WebRequests' = WebRequests]_vars

\* C2: whenever a similarity score and a report URL are both cached,
\* invoking the check action issues no web-similarity request and only
\* reveals the cached value; with a score cached but no report URL the
\* check is sent again.
C2_ScoreAndReportSkipRequest ==
  [][CheckInvoked /\ similarityScore # JNull =>
       IF Truthy(reportUrl)
       THEN /\ WebRequests' = WebRequests
            /\ snackbarOpen'
            /\ ~checkingWebSimilarity'
       ELSE /\ Cardinality(WebRequests') = Cardinality(WebRequests) + 1
            /\ checkingWebSimilarity']_vars

C2_Witness ==
  /\ lastEvent = "CheckClick"
  /\ similarityScore # JNull
  /\ Truthy(reportUrl)
  /\ snackbarOpen
  /\ pending = {}

\* C3: once a similarity score and a report URL are both cached, an
\* invocation of the check action performs no network call and leaves
\* score, report URL and local storage unchanged.
C3_CachedCheckIsLocal ==
  [][(lastEvent' = "CheckClick" /\ similarityScore # JNull /\ Truthy(reportUrl))
       => /\ pending' = pending
          /\ similarityScore' = similarityScore
          /\ reportUrl' = reportUrl
          /\ localStorage' = localStorage]_vars

C3_Witness ==
  /\ lastEvent = "CheckClick"
  /\ similarityScore = Int2Num(81)
  /\ reportUrl = FullUrl(ReportPath)
  /\ JSONparse(localStorage[DataKey]).web_similarity_score = Int2Num(81)
  /\ ~checkingWebSimilarity

\* C5: handleSubmit with an empty name or with no file selected issues no
\* network call: an error message is set, the view stays unsubmitted and
\* local storage is unchanged.
C5_InvalidSubmitStaysLocal ==
  [][(lastEvent' = "SubmitEvent" /\ (name = "" \/ file = JNull))
       => /\ pending' = pending
          /\ error' # ""
          /\ ~submitted'
          /\ localStorage' = localStorage]_vars

C5_Witness ==
  /\ lastEvent = "SubmitEvent"
  /\ name # ""
  /\ file = JNull
  /\ error = "Please upload a file before submitting."
  /\ pending = {}

\* C6: when the submit request returns status success the view becomes
\* submitted, the status key holds "submitted" and the returned record is
\* stored under the data key; when it rejects or returns another status the
\* view stays unsubmitted, an error message is set and neither key is
\* written.
C6_SubmitOutcome ==
  [][lastEvent' = "SubmitResponse" =>
     \A r \in {q \in pending : q.kind = "submit"} :
       \A resp \in SubmitResponses(r) :
         SubmitSettle(r, resp) =>
           IF ~resp.rejected /\ resp.status = "success"
           THEN /\ submitted'
                /\ localStorage'[StatusKey] = Str("submitted")
                /\ Truthy(resp.data) =>
                     localStorage'[DataKey] = JSONstringify(resp.data)
           ELSE /\ ~submitted'
                /\ error' # ""
                /\ localStorage' = localStorage]_vars

C6_Witness ==
  /\ lastEvent = "SubmitResponse"
  /\ submitted
  /\ localStorage[StatusKey] = Str("submitted")
  /\ localStorage[DataKey] # JNull
  /\ JSONparse(localStorage[DataKey]).student_name = Str("Alice")

\* the matches of "Calculated similarity: D.D%" in the tokens s: the
\* position of the literal, the number of digits before and after the point
SummaryMatches(s) ==
  {m \in UNION {{<<i, a, b>> : a \in 1..(Len(s) - i), b \in 1..(Len(s) - i)} :
                 i \in {j \in 1..Len(s) : s[j] = SummaryLiteral}} :
     /\ m[1] + m[2] + m[3] + 2 <= Len(s)
     /\ \A k \in 1..m[2] : s[m[1] + k] \in Digits
     /\ s[m[1] + m[2] + 1] = "."
     /\ \A k \in 1..m[3] : s[m[1] + m[2] + 1 + k] \in Digits
     /\ s[m[1] + m[2] + m[3] + 2] = "%"}

\* the number the first match captures, null when nothing matches
CapturedScore(summary) ==
  IF ~Truthy(summary) \/ SummaryMatches(summary.tok) = {} THEN JNull
  ELSE LET s == summary.tok
           m == CHOOSE x \in SummaryMatches(s) :
                  \A y \in SummaryMatches(s) : x[1] <= y[1]
       IN  Num(DigitsToNat(SubSeq(s, m[1] + 1, m[1] + m[2])),
               StripTrailingZeros(SubSeq(s, m[1] + m[2] + 2,
                                         m[1] + m[2] + m[3] + 1)))

\* the score the three shapes of a response yield, a field counting as
\* present when the body has it (whatever it holds)
ClaimedScore(resp) ==
  IF resp.web_similarity_score # Undef THEN resp.web_similarity_score
  ELSE IF resp.similarity_score # Undef THEN resp.similarity_score
  ELSE CapturedScore(resp.analysis_summary)

\* C7: for every success response to a web-similarity request the resolved
\* score is web_similarity_score when present, else similarity_score when
\* present, else the number captured from "Calculated similarity: D.D%" in
\* analysis_summary (42.5 for "Calculated similarity: 42.5%"); a score that
\* is a number is set and persisted with the report URL under the data key;
\* otherwise no score is set or persisted.
C7_ScoreResolution ==
  [][lastEvent' = "WebResponse" =>
     \A r \in WebRequests : \A resp \in WebResponses :
       (/\ ~resp.rejected
        /\ resp.status = "success"
        /\ WebSettle(r, resp)) =>
         LET c == ClaimedScore(resp) IN
         /\ IF IsNum(c)
            THEN /\ similarityScore' = c
                 /\ localStorage'[DataKey] # JNull
                 /\ JSONparse(localStorage'[DataKey]).web_similarity_score = c
                 /\ JSONparse(localStorage'[DataKey]).report_url =
                      (IF Truthy(resp.report_url) THEN resp.report_url
                       ELSE JNull)
            ELSE /\ similarityScore' = similarityScore
                 /\ localStorage' = localStorage
         /\ (/\ resp.web_similarity_score = Undef
             /\ resp.similarity_score = Undef
             /\ resp.analysis_summary = SummaryExample)
              => similarityScore' = Num(42, <<"5">>)]_vars

C7_Witness ==
  /\ lastEvent = "WebResponse"
  /\ similarityScore = Num(42, <<"5">>)
  /\ localStorage[DataKey] # JNull
  /\ JSONparse(localStorage[DataKey]).web_similarity_score = Num(42, <<"5">>)
  /\ JSONparse(localStorage[DataKey]).report_url = ReportPath

(***************************************************************************)
(* Properties of the lecturer grading view.                                *)
(***************************************************************************)
\* the text cs read as a decimal numeral: a sign, digits, and a point with
\* digits after it; ok when the whole text is one
Numeral(cs) ==
  LET neg == cs # <<>> /\ cs[1] = "-"
      body == IF neg THEN Tail(cs) ELSE cs
      n1 == DigitRun(body, 1)
      point == n1 < Len(body) /\ body[n1 + 1] = "."
      n2 == IF point THEN DigitRun(body, n1 + 2) ELSE 0
      used == n1 + (IF point THEN 1 + n2 ELSE 0)
  IN  [ok |-> used = Len(body) /\ n1 + n2 > 0,
       neg |-> neg,
       ip |-> IF n1 = 0 THEN 0 ELSE DigitsToNat(SubSeq(body, 1, n1)),
       fp |-> StripTrailingZeros(SubSeq(body, n1 + 2, n1 + 1 + n2))]

\* the entered grade is not a number, is below 0 or is above 100
EnteredInvalid(cs) ==
  LET e == Numeral(cs)
  IN  \/ ~e.ok
      \/ e.neg /\ (e.ip > 0 \/ e.fp # <<>>)
      \/ ~e.neg /\ (e.ip > 100 \/ (e.ip = 100 /\ e.fp # <<>>))

GradeRequests == {q \in lavPending : q.kind = "grade"}

\* C4: for every grade value entered (both prompts answered), the action is
\* rejected with the validation message and no grade request is issued iff
\* the value is not a number, is below 0 or is above 100; for every other
\* value exactly one grade request carrying that value is issued.
C4_GradeValidation ==
  [][(lastEvent' = "GradeClick" /\ lavGrade' # JNull /\ lavFeedback' # JNull)
       => IF EnteredInvalid(lavGrade'.ch)
          THEN /\ lavAlert' = ValidationAlert
               /\ lavPending' = lavPending
          ELSE /\ Cardinality(GradeRequests' \ GradeRequests) = 1
               /\ \A q \in GradeRequests' \ GradeRequests :
                    /\ Numeral(lavGrade'.ch).fp = <<>>
                    /\ q.grade = Numeral(lavGrade'.ch).ip]_vars

(***************************************************************************)
(* Properties of the threshold filter.                                     *)
(***************************************************************************)
\* the row is among those the table shows
RowDisplayed(r) ==
  \E j \in DOMAIN filterResults(scWebResults) :
    filterResults(scWebResults)[j] = r

ScoreFields(r) ==
  <<r.web_similarity_score, r.similarity_score, r.similarity>>

\* max(fields, 0) >= t, an absent field counting as 0
MaxAtLeast(r, t) ==
  t <= 0 \/ \E k \in 1..3 : ScoreFields(r)[k] # Undef /\ ScoreFields(r)[k].ip >= t

\* the first field among those at the positions ks, 0 when there is none
FirstOf(r, ks) ==
  IF ks = {} THEN Int2Num(0)
  ELSE ScoreFields(r)[CHOOSE k \in ks : \A j \in ks : k <= j]

PresentFields(r) == {k \in 1..3 : ScoreFields(r)[k] # Undef}

NonzeroFields(r) ==
  {k \in 1..3 : ScoreFields(r)[k] \notin {Undef, Int2Num(0)}}

\* C8 as stated: a row is displayed iff the largest of its three score
\* fields and 0 is at least the threshold.
C8_DisplayedIffMax ==
  \A k \in DOMAIN scWebResults.items :
    RowDisplayed(scWebResults.items[k])
      <=> MaxAtLeast(scWebResults.items[k], scThreshold)

\* C8: a row is displayed iff the first of web_similarity_score,
\* similarity_score, similarity (in that order) that is present and not 0,
\* or 0 when there is none, is at least the threshold; so a displayed row
\* has a maximum at least the threshold, but not the other way round.
C8_DisplayedIffFirstNonzero ==
  \A k \in DOMAIN scWebResults.items :
    LET r == scWebResults.items[k] IN
    /\ RowDisplayed(r) <=> FirstOf(r, NonzeroFields(r)).ip >= scThreshold
    /\ RowDisplayed(r) => MaxAtLeast(r, scThreshold)

C8_Witness ==
  /\ lastEvent = "SetThreshold"
  /\ scThreshold = 50
  /\ \E k \in DOMAIN scWebResults.items :
       /\ scWebResults.items[k].web_similarity_score = Int2Num(30)
       /\ scWebResults.items[k].similarity_score = Int2Num(80)
       /\ ~RowDisplayed(scWebResults.items[k])

\* C9: the score compared against the threshold is the first field that is
\* present among web_similarity_score, similarity_score, similarity (in
\* that order), and a row is displayed iff that score is at least the
\* threshold.
C9_DisplayedIffFirstPresent ==
  \A k \in DOMAIN scWebResults.items :
    LET r == scWebResults.items[k] IN
    RowDisplayed(r) <=> FirstOf(r, PresentFields(r)).ip >= scThreshold

(***************************************************************************)
(* Properties of the web check of the workspace.                           *)
(***************************************************************************)
WebCheckPending == {q \in scPending : q.kind = "web"}

\* the step is the one in which a check shows its results
ResultsSet ==
  /\ lastEvent' = "WebCheckResponse"
  /\ (scWebResults' # scWebResults \/ ScFetches' # ScFetches)

\* C10: checkWebSimilarity with an empty selection issues no request; with
\* n submissions selected it issues exactly n web-similarity requests, one
\* per selected id, all in the step of the call; webResults is set only
\* when all n have succeeded and then holds the n responses in selection
\* order, never a part of them.
C10_WebCheckBatch ==
  [][/\ lastEvent' = "CheckWebEvent" =>
          LET n == Len(scSelectedSubmissions)
              new == WebCheckPending' \ WebCheckPending
          IN  /\ scPending' \ scPending = new
              /\ Cardinality(new) = n
              /\ \A k \in 1..n :
                   Cardinality({q \in new :
                     q.submission_id = scSelectedSubmissions[k]}) = 1
              /\ scWebResults' = scWebResults
     /\ ResultsSet =>
          \E b \in scBatches :
            /\ Len(scWebResults'.items) = Len(b.ids)
            /\ \A k \in DOMAIN b.ids :
                 /\ scWebResults'.items[k] \in WebCheckBodies(b.ids[k])
                 /\ scWebResults'.items[k].submission_id = b.ids[k]
            /\ \A q \in WebCheckPending' : q.bid # b.bid
     /\ (lastEvent' = "WebCheckResponse" /\ ~ResultsSet)
          => scWebResults' = scWebResults]_vars

C10_Witness ==
  /\ lastEvent = "WebCheckResponse"
  /\ scWebResults # JNull
  /\ Len(scWebResults.items) = 2
  /\ scWebResults.items[1].submission_id = 2
  /\ scWebResults.items[2].submission_id = 1
  /\ scActiveTab = "webResults"

\* the requests a WebCheckResponse step has answered
WebCheckAnswered == WebCheckPending \ WebCheckPending'

\* the step shows something of a check or reports it finished: the results
\* table, the error message, the notification or the loading reset
BatchReported ==
  /\ lastEvent' = "WebCheckResponse"
  /\ \/ scWebResults' # scWebResults
     \/ scError' # scError
     \/ scNotification' # scNotification
     \/ scLoading /\ ~scLoading'

\* C11: nothing of a web-similarity batch is displayed and the batch is not
\* reported finished until every request of the batch has settled, also
\* when one request fails while others are still outstanding.
C11_ReportedOnlyWhenAllSettled ==
  [][BatchReported =>
       \A r \in WebCheckAnswered :
         \A q \in WebCheckPending' : q.bid # r.bid]_vars

(***************************************************************************)
(* Compare: checkAssignmentSimilarity of the workspace.                    *)
(***************************************************************************)
\* the POST /compare/ requests awaiting their response
CompareRequests == {run \in scCompare : run.step = "compare"}

\* C12: every POST /compare/ request carries at least two ids, and a call
\* of compare made with fewer than two submissions selected and with
\* pending files plus selected existing assignments totalling fewer than
\* two is rejected with the message and issues no request, whatever files
\* were added or removed and whatever was toggled before.
C12_CompareCarriesTwoIds ==
  [][/\ \A run \in CompareRequests' : Len(run.ids) >= 2
     /\ (/\ lastEvent' = "CompareEvent"
         /\ Len(scSelectedSubmissions) < 2
         /\ Len(scFiles) + Len(SelectedAssignments) < 2)
        => /\ scCompare' = scCompare
           /\ scError' = Str(TooFewMessage)]_vars

\* compare was called with one file and one submission chosen and was
\* rejected
C12_Witness ==
  /\ lastEvent = "CompareEvent"
  /\ Len(scFiles) = 1 /\ Len(SelectedAssignments) = 0
  /\ Len(scSelectedSubmissions) = 1
  /\ scError = Str(TooFewMessage)
  /\ scCompare = {}

(***************************************************************************)
(* Report view: the resolution chain.                                      *)
(***************************************************************************)
\* the view was entered with a result payload that has a first item
EnteredWithItem == rptMounted /\ HasItems(rptAssignmentResults)

Attempted(step) == \E k \in DOMAIN rptChain : rptChain[k].step = step

Failed(step) ==
  \E k \in DOMAIN rptChain :
    rptChain[k].step = step /\ rptChain[k].out = "failed"

\* the step that has to follow step k of the chain once it failed
NextAfter(k) ==
  CASE rptChain[k].step = "extract" ->
         IF BothIds(FirstItem(rptAssignmentResults)) THEN {"detailed"}
         ELSE {"placeholder"}
    [] rptChain[k].step = "detailed" -> {"contents", "placeholder"}
    [] rptChain[k].step = "contents" -> {"placeholder"}
    [] OTHER -> {}

ChainEnded == rptPending \cap {"extract", "detailed", "contents"} = {}

\* C13: in a view entered with a result payload, report extraction is
\* requested iff the first item has a report URL; the detailed comparison
\* is requested only if both ids are present and there is no report URL or
\* the extraction failed; the placeholder is synthesised only if neither
\* earlier step is available or every step attempted before it failed; a
\* step that failed is followed by the next step, and once nothing of the
\* chain is under way the last step succeeded and the segments are set.
C13_ResolutionOrder ==
  EnteredWithItem =>
    LET item == FirstItem(rptAssignmentResults)
    IN  /\ Attempted("extract") <=> Truthy(item.report_url)
        /\ Attempted("detailed") =>
             /\ BothIds(item)
             /\ ~Truthy(item.report_url) \/ Failed("extract")
        /\ Attempted("placeholder") =>
             \/ ~Truthy(item.report_url) /\ ~BothIds(item)
             \/ \A k \in 1..(Len(rptChain) - 1) : rptChain[k].out = "failed"
        /\ \A k \in DOMAIN rptChain :
             rptChain[k].out = "failed" =>
               k < Len(rptChain) /\ rptChain[k + 1].step \in NextAfter(k)
        /\ ChainEnded =>
             /\ rptChain # <<>>
             /\ rptChain[Len(rptChain)].out = "ok"
             /\ rptChain[Len(rptChain)].step \in {"contents", "placeholder"}
                  => /\ rptSimilarTexts.text1 # <<>>
                     /\ rptSimilarTexts.text2 # <<>>

\* extraction, the detailed comparison and the content fetch failed in
\* turn and the placeholder was set
C13_Witness ==
  /\ EnteredWithItem
  /\ Len(rptChain) = 4
  /\ rptChain[1] = ChainStep("extract", "failed")
  /\ rptChain[2] = ChainStep("detailed", "failed")
  /\ rptChain[3] = ChainStep("contents", "failed")
  /\ rptChain[4] = ChainStep("placeholder", "ok")
  /\ rptSimilarTexts = PlaceholderSegments(rptAssignmentResults)

\* C14: the error of the report view is set only by the report-identifier
\* fetch when it fails; no resolution step and no later action on the
\* rendered report sets it.
C14_ErrorOnlyFromReportFetch ==
  [][(rptError' # rptError /\ Truthy(rptError'))
       => lastEvent' = "ReportResponse"]_vars

(***************************************************************************)
(* Report view: the fallback matcher.                                      *)
(***************************************************************************)
\* the matcher has just run on the two contents fetched
MatcherRan ==
  /\ lastEvent = "ContentsResponse"
  /\ Truthy(rptContents[1]) /\ Truthy(rptContents[2])

InPane(segment, pane) == \E k \in DOMAIN pane : pane[k] = segment

\* unit u is shown as a matched segment with percentage 100 in both panes
MatchedInBoth(u) ==
  /\ InPane(Segment(Chars(u), TRUE, Int2Num(100)), rptSimilarTexts.text1)
  /\ InPane(Segment(Chars(u), TRUE, Int2Num(100)), rptSimilarTexts.text2)

Units(content) ==
  {SplitSentences(content.ch)[k] : k \in DOMAIN SplitSentences(content.ch)}

\* C15: when the matcher runs on two identical texts, every sentence unit
\* u has ratio 1.0 with itself and is shown as a matched segment with
\* percentage 100 in both panes.
C15_EveryUnitMatches ==
  (MatcherRan /\ rptContents[1] = rptContents[2]) =>
    \A u \in Units(rptContents[1]) :
      /\ calculateStringSimilarity(u, u) = Ratio(1, 1)
      /\ MatchedInBoth(u)

\* C15, amended: when the matcher runs on two identical texts, every
\* sentence unit that is not empty has ratio 1.0 with itself and is shown
\* as a matched segment with percentage 100 in both panes; the empty unit
\* that whitespace after the last terminal character leaves has ratio 0
\* and is not shown.
C15_NonEmptyUnitsMatch ==
  (MatcherRan /\ rptContents[1] = rptContents[2]) =>
    \A u \in Units(rptContents[1]) :
      IF u # <<>>
      THEN /\ calculateStringSimilarity(u, u) = Ratio(1, 1)
           /\ MatchedInBoth(u)
      ELSE /\ calculateStringSimilarity(u, u) = Ratio(0, 1)
           /\ ~MatchedInBoth(u)

\* the matcher ran on "a. " twice: the unit "a." and an empty one
C15_Witness ==
  /\ MatcherRan
  /\ rptContents[1] = Chars(<<"a", ".", " ">>)
  /\ rptContents[2] = rptContents[1]
  /\ Units(rptContents[1]) = {<<"a", ".">>, <<>>}
  /\ Len(rptSimilarTexts.text1) = 1

\* the two texts hold different characters wherever both have one
NoSharedOffset(text1, text2) ==
  \A i \in DOMAIN text1 \cap DOMAIN text2 : text1[i] # text2[i]

NoSimilarityPane == <<Segment(NoSimilarity, FALSE, Undef)>>

\* C16: when the contents fetched are two texts that share no character at
\* any corresponding offset, no pair of units exceeds the 0.7 threshold,
\* and when the aggregate similarity of the payload is 0 both panes show
\* the single non-matched segment "No similarity detected between
\* documents."
C16_NoSharedCharacters ==
  (/\ lastEvent = "ContentsResponse"
   /\ rptContents[1] # JNull /\ rptContents[2] # JNull
   /\ NoSharedOffset(rptContents[1].ch, rptContents[2].ch))
  => /\ \A u \in Units(rptContents[1]), v \in Units(rptContents[2]) :
          ~AboveThreshold(calculateStringSimilarity(u, v))
     /\ FirstItem(rptAssignmentResults).similarity = Int2Num(0)
          => /\ rptSimilarTexts.text1 = NoSimilarityPane
             /\ rptSimilarTexts.text2 = NoSimilarityPane

(***************************************************************************)
(* Report view: highlightMatches.                                          *)
(***************************************************************************)
\* the spans on screen, both panes
RenderedSpans ==
  {<<rptSimilarTexts.text1[k], highlightMatches(rptSimilarTexts.text1)[k]>> :
     k \in DOMAIN rptSimilarTexts.text1}
    \cup
  {<<rptSimilarTexts.text2[k], highlightMatches(rptSimilarTexts.text2)[k]>> :
     k \in DOMAIN rptSimilarTexts.text2}

\* the colour the claim gives percentage p
ClaimedColor(p) ==
  IF p >= 75 THEN Str("#ff9999")
  ELSE IF p >= 50 THEN Str("#ffcc99")
  ELSE IF p >= 25 THEN Str("#ffff99")
  ELSE Str("#e6ffe6")

\* C17: highlightMatches renders a segment that is no match unstyled, and
\* a matched segment with percentage p, for every p in 0..100, in #ff9999
\* if p >= 75, #ffcc99 if 50 <= p < 75, #ffff99 if 25 <= p < 50 and
\* #e6ffe6 if p < 25.
C17_HighlightColors ==
  \A pair \in RenderedSpans :
    LET segment == pair[1]
        span == pair[2]
    IN  /\ ~segment.isMatch => span.backgroundColor = Undef
        /\ (segment.isMatch /\ IsNum(segment.percentage)) =>
             span.backgroundColor = ClaimedColor(segment.percentage.ip)

(***************************************************************************)
(* Student view: the score badge.                                          *)
(***************************************************************************)
\* the colour the claim gives score s
ClaimedBadgeColor(s) ==
  IF s >= 70 THEN Str("#D32F2F")
  ELSE IF s >= 40 THEN Str("#FFEB3B")
  ELSE Str("#388E3C")

BadgeColorAsClaimed ==
  BadgeShown => BadgeColor = ClaimedBadgeColor(similarityScore.ip)

PatchedInPlace(r) ==
  [k \in DOMAIN lavSubmissions |->
     IF lavSubmissions[k].id = r.submissionId
     THEN [lavSubmissions[k] EXCEPT !.grade = Int2Num(r.grade),
                                    !.feedback = r.feedback,
                                    !.status = "graded"]
     ELSE lavSubmissions[k]]

\* C19: whatever the interleaving of grade actions on different
\* submissions and their responses, the response to a grade request either
\* failed and changes no submission, or succeeded and leaves the graded
\* submission with status "graded" and the grade and feedback sent and
\* every other submission unchanged; no request (no refetch) is issued.
C19_GradePatch ==
  [][lastEvent' = "GradeResponse" =>
       /\ lavPending' \subseteq lavPending
       /\ \A r \in lavPending \ lavPending' :
            \/ lavSubmissions' = lavSubmissions
            \/ lavSubmissions' = PatchedInPlace(r)]_vars

(***************************************************************************)
(* Student view: the unsubmitted view holds no submission.                 *)
(***************************************************************************)
\* C20: whatever the interleaving of submit, check, remove and their
\* responses, whenever the view is unsubmitted the status key and the data
\* key are absent from localStorage and the submission record, the score
\* and the report URL held in memory are null; a check response arriving
\* after a remove does not write them back.
C20_UnsubmittedHoldsNothing ==
  ~submitted =>
    /\ localStorage[StatusKey] = JNull
    /\ localStorage[DataKey] = JNull
    /\ submissionData = JNull
    /\ similarityScore = JNull
    /\ reportUrl = JNull

(***************************************************************************)
(* The loading flags and the requests under way.                           *)
(***************************************************************************)
\* a request of the workspace is awaiting its response: a list refresh or a
\* web-similarity check, an upload or a compare of a comparison run
WorkspaceOutstanding == scPending # {} \/ scCompare # {}

\* a request of the report view is awaiting its response
ReportOutstanding == rptPending # {}

\* C21: in the workspace and in the report view, whenever a backend request
\* started by an action (upload, compare, web-similarity check, list
\* refresh, report extraction, detailed comparison, content fetch) is
\* outstanding, the loading flag of the view is true.
C21_LoadingWhileOutstanding ==
  /\ WorkspaceOutstanding => scLoading
  /\ ReportOutstanding => rptLoading

\* the student view, the grading view, the workspace and the report view
\* have no request awaiting its response
StudentSettled == pending = {}

GradingSettled == lavPending = {}

WorkspaceSettled == scPending = {} /\ scCompare = {}

ReportSettled == rptPending = {}

Outstanding(kind) == {r \in pending : r.kind = kind}

\* C23: in the student view at most one submit request, at most one
\* delete-submission request and at most one web-similarity request is
\* outstanding at any time, and the trigger of each is disabled while its
\* request is outstanding: the Submit button, "Yes, Remove" and the Check
\* Web Similarity button.
C23_OneRequestPerTrigger ==
  /\ \A kind \in {"submit", "delete", "web"} :
       Cardinality(Outstanding(kind)) <= 1
  /\ Outstanding("submit") # {} => ~SubmitEnabled
  /\ Outstanding("delete") # {} => loading
  /\ Outstanding("web") # {} => checkingWebSimilarity

\* a check and a remove are under way together, each with its trigger
\* disabled
C23_Witness ==
  /\ Cardinality(Outstanding("web")) = 1
  /\ Cardinality(Outstanding("delete")) = 1
  /\ checkingWebSimilarity /\ loading

(***************************************************************************)
(* Compare with pending files.                                             *)
(***************************************************************************)
\* the uploads of a run that have not been answered
UploadsPending(run) == {k \in DOMAIN run.up : run.up[k] = Pending}

\* the ids the uploads of a run return, in file order
ReturnedIds(run) == [k \in DOMAIN run.up |-> UploadBody(k).assignment_id]

\* C24: when compare is triggered with pending files, no compare request is
\* issued by the trigger itself; the one compare request of the run is
\* issued by the step that answers its last upload, so that every upload has
\* completed, and it carries one id per pending file (the returned ids, in
\* file order) followed by the ids of the existing assignments that were
\* selected when compare was triggered.
C24_CompareAfterUploads ==
  [][/\ (lastEvent' = "CompareEvent" /\ Len(scFiles) > 0
           /\ ~(scActiveTab = "submissions" /\ Len(scSelectedSubmissions) >= 2))
          => CompareRequests' = CompareRequests
     /\ \A run \in scCompare :
          run.step = "upload" =>
            \A new \in CompareRequests' :
              new.cid = run.cid =>
                /\ Cardinality(UploadsPending(run)) = 1
                /\ new.ids = ReturnedIds(run) \o run.sel]_vars

(***************************************************************************)
(* Fallback matcher: the pairs recorded and the panes.                     *)
(***************************************************************************)
\* matches / len(longer) of two units, as a pair <<matches, len(longer)>>
UnitRatio(u, v) ==
  LET shorter == IF Len(u) <= Len(v) THEN u ELSE v
      longer == IF Len(u) <= Len(v) THEN v ELSE u
  IN  <<Cardinality({k \in DOMAIN shorter : shorter[k] = longer[k]}),
        Len(longer)>>

\* ratio > 0.7
ClearsThreshold(u, v) == 10 * UnitRatio(u, v)[1] > 7 * UnitRatio(u, v)[2]

\* round(100 * ratio)
UnitPercent(u, v) ==
  (200 * UnitRatio(u, v)[1] + UnitRatio(u, v)[2]) \div (2 * UnitRatio(u, v)[2])

\* the unit pairs (i, j) of two texts whose ratio is > 0.7
ClearingPairs(text1, text2) ==
  LET units1 == SplitSentences(text1)
      units2 == SplitSentences(text2)
  IN  {p \in (DOMAIN units1) \X (DOMAIN units2) :
         ClearsThreshold(units1[p[1]], units2[p[2]])}

\* pane lists one matched segment per pair of P, in non-decreasing order of
\* the pair's index on side s, each holding the unit of units at that index
\* and the pair's percentage
PaneListsPairs(pane, P, s, units, units1, units2) ==
  /\ Len(pane) = Cardinality(P)
  /\ \A i \in DOMAIN units :
       LET before == Cardinality({p \in P : p[s] < i})
           here == {p \in P : p[s] = i}
           block == (before + 1)..(before + Cardinality(here))
       IN  /\ \A k \in block :
                /\ pane[k].text = Chars(units[i])
                /\ pane[k].isMatch
           /\ \A q \in {UnitPercent(units1[p[1]], units2[p[2]]) : p \in here} :
                Cardinality({k \in block : pane[k].percentage = Int2Num(q)})
                  = Cardinality({p \in here :
                      UnitPercent(units1[p[1]], units2[p[2]]) = q})

\* the single segment holding a document's full text
IsFullText(pane, content) ==
  /\ Len(pane) = 1
  /\ pane[1].text = content
  /\ pane[1].isMatch

\* C25: the matches the fallback matcher records are exactly the ordered
\* unit pairs (i, j) whose ratio, matching offsets of the shorter unit over
\* the length of the longer, is > 0.7; each recorded pair gives one matched
\* segment to each pane, tagged round(100 * ratio); pane 1 lists them in
\* non-decreasing i and pane 2 in non-decreasing j.  With no such pair no
\* segment of a pair is shown.
C25_RecordedPairs ==
  MatcherRan =>
    LET units1 == SplitSentences(rptContents[1].ch)
        units2 == SplitSentences(rptContents[2].ch)
        P == ClearingPairs(rptContents[1].ch, rptContents[2].ch)
    IN  IF P # {}
        THEN /\ PaneListsPairs(rptSimilarTexts.text1, P, 1, units1,
                               units1, units2)
             /\ PaneListsPairs(rptSimilarTexts.text2, P, 2, units2,
                               units1, units2)
        ELSE /\ \/ rptSimilarTexts.text1 = <<>>
                \/ IsFullText(rptSimilarTexts.text1, rptContents[1])
             /\ \/ rptSimilarTexts.text2 = <<>>
                \/ IsFullText(rptSimilarTexts.text2, rptContents[2])

\* ". a." against "a. .": the pairs (1, 2) and (2, 1), listed in pane 2
\* by the unit index of the second text
C25_Witness ==
  /\ MatcherRan
  /\ rptContents[1] = Chars(<<".", " ", "a", ".">>)
  /\ rptContents[2] = Chars(<<"a", ".", " ", ".">>)
  /\ ClearingPairs(rptContents[1].ch, rptContents[2].ch) = {<<1, 2>>, <<2, 1>>}
  /\ rptSimilarTexts.text2 =
       <<Segment(Chars(<<"a", ".">>), TRUE, Int2Num(100)),
         Segment(Chars(<<".">>), TRUE, Int2Num(100))>>

\* the aggregate similarity of the comparison on screen: of the results
\* the view was entered with, or of the report it fetched
ComparisonSimilarity == FirstItem(rptReportData).similarity

\* the pane holds the document's full text as one matched segment that
\* carries the aggregate score
FullTextSegment(pane, content) ==
  pane = <<Segment(content, TRUE, ComparisonSimilarity)>>

\* every segment of the pane holds a unit of the document
HoldsUnitsOnly(pane, content) ==
  \A k \in DOMAIN pane : pane[k].text.ch \in Units(content)

\* C26: when no unit pair clears the 0.7 threshold and the aggregate
\* similarity of the comparison is nonzero, each pane holds exactly one
\* matched segment with the document's full text and the aggregate score
\* as its percentage; when some pair clears the threshold the panes hold
\* one segment per pair, each a unit, and no full-text segment besides.
C26_FullTextFallback ==
  MatcherRan =>
    LET P == ClearingPairs(rptContents[1].ch, rptContents[2].ch)
    IN  /\ (P = {} /\ IsNum(ComparisonSimilarity)
              /\ ComparisonSimilarity # Int2Num(0))
             => /\ FullTextSegment(rptSimilarTexts.text1, rptContents[1])
                /\ FullTextSegment(rptSimilarTexts.text2, rptContents[2])
        /\ P # {}
             => /\ Len(rptSimilarTexts.text1) = Cardinality(P)
                /\ Len(rptSimilarTexts.text2) = Cardinality(P)
                /\ HoldsUnitsOnly(rptSimilarTexts.text1, rptContents[1])
                /\ HoldsUnitsOnly(rptSimilarTexts.text2, rptContents[2])

(***************************************************************************)
(* Student view: reload.                                                   *)
(***************************************************************************)
\* C27: at any point where no request is outstanding, re-mounting the
\* student view and restoring from local storage yields the submitted flag,
\* the submission record, the similarity score, the report URL and the
\* report filename held in memory just before the reload.
C27_ReloadContinuity ==
  [][(lastEvent' = "Reload" /\ pending = {}) =>
       /\ submitted' = submitted
       /\ submissionData' = submissionData
       /\ similarityScore' = similarityScore
       /\ reportUrl' = reportUrl
       /\ reportFilename' = reportFilename]_vars

(***************************************************************************)
(* Student view: the error message on screen.                              *)
(***************************************************************************)
\* the error Alert is rendered: it belongs to the form of the unsubmitted
\* branch
ErrorShown == ~submitted /\ error # ""

\* the messages a failed check, remove or download may set
FailureMessages(event) ==
  {BackendMessage} \cup
    CASE event = "WebResponse" ->
           {"Failed to check web similarity. Please try again.",
            "An error occurred during web similarity check."}
      [] event = "DeleteResponse" ->
           {"Failed to remove submission. Please try again.",
            "An error occurred while removing your submission. Please try again."}
      [] event = "DownloadResponse" ->
           {"Failed to download the report. Please try again."}

\* the step is the failure of a check, a remove or a download: its
\* continuation sets the message
FailureStep ==
  /\ lastEvent' \in {"WebResponse", "DeleteResponse", "DownloadResponse"}
  /\ error' # error
  /\ error' \in FailureMessages(lastEvent')

\* C28: in the student view, whenever a web-similarity check, a remove or a
\* report download fails, the error message set (the backend's message when
\* present, else the fallback string of the action) is visible to the user
\* in the state the view is in at that moment, the submitted state
\* included.
C28_FailureIsShown ==
  [][FailureStep => ErrorShown']_vars

(***************************************************************************)
(* The similarity badges of the lecturer's lists.                          *)
(***************************************************************************)
\* C29: in the grading view and in the workspace submissions list a
\* similarity badge is rendered for a submission iff the submission carries
\* a numeric similarity score; a submission whose score field is absent or
\* null renders no badge.
C29_BadgeIffNumericScore ==
  /\ \A k \in DOMAIN lavSubmissions :
       LavBadgeRendered(lavSubmissions[k])
         <=> IsNum(lavSubmissions[k].web_similarity_score)
  /\ \A k \in DOMAIN scSubmissions :
       ScBadgeRendered(scSubmissions[k])
         <=> IsNum(scSubmissions[k].similarity_score)

(***************************************************************************)
(* Report view: the pages of the exported PDF.                             *)
(***************************************************************************)
\* a PDF has just been saved
PdfSaved == lastEvent = "PdfResponse" /\ rptPdf # JNull /\ rptError = JNull

\* C30: for every positive image height H the pagination ends and loading
\* is reset; page k (k >= 1) places the image at vertical offset
\* -(k-1)*295; and the number of pages is the smallest n with n*295 >= H,
\* so that no page lies entirely past the end of the image.
C30_Pagination ==
  PdfSaved =>
    LET n == Len(rptPdf.positions)
    IN  /\ ~rptLoading
        /\ \A k \in 1..n : rptPdf.positions[k] = -((k - 1) * 295)
        /\ n * 295 >= rptPdf.imgHeight
        /\ (n - 1) * 295 < rptPdf.imgHeight

====
